---- MODULE Spec2Model ----
(***************************************************************************)
(* Model of the device configuration script engine (source/bmp-script.c): *)
(* the MCU-list matcher, the script line parser, the loader that builds   *)
(* the script list, and the cursor ("cache") that bmscript_line() walks.  *)
(*                                                                         *)
(* Text is modelled as a sequence of one-character strings; a read at or  *)
(* past the end of a sequence yields NUL, the C string terminator.        *)
(***************************************************************************)
EXTENDS Integers, Sequences, FiniteSets, TLC

(***************************************************************************)
(* Characters                                                              *)
(***************************************************************************)
NUL == ""

\* character codes 32..126 (code 96 is written "grave")

AsciiPrintable ==
  <<
     " ", "!", "\"", "#", "$", "%", "&", "'", "(", ")", "*", "+", ",", "-", ".", "/",
     "0", "1", "2", "3", "4", "5", "6", "7", "8", "9", ":", ";", "<", "=", ">", "?",
     "@", "A", "B", "C", "D", "E", "F", "G", "H", "I", "J", "K", "L", "M", "N", "O",
     "P", "Q", "R", "S", "T", "U", "V", "W", "X", "Y", "Z", "[", "\\", "]", "^", "_",
     "grave", "a", "b", "c", "d", "e", "f", "g", "h", "i", "j", "k", "l", "m", "n", "o",
     "p", "q", "r", "s", "t", "u", "v", "w", "x", "y", "z", "{", "|", "}", "~"
  >>

CharSet == {AsciiPrintable[i] : i \in 1..95} \cup {NUL, "\t", "\n", "\r"}

\* the character code of c
OrdTable ==
  [c \in CharSet |->
     IF c = NUL THEN 0
     ELSE IF c = "\t" THEN 9
     ELSE IF c = "\n" THEN 10
     ELSE IF c = "\r" THEN 13
     ELSE 31 + (CHOOSE i \in 1..95 : AsciiPrintable[i] = c)]

Ord(c) == OrdTable[c]

isdigit(c) == Ord(c) >= 48 /\ Ord(c) <= 57
isupper(c) == Ord(c) >= 65 /\ Ord(c) <= 90
islower(c) == Ord(c) >= 97 /\ Ord(c) <= 122
isalnum(c) == isdigit(c) \/ isupper(c) \/ islower(c)
isspace(c) == c \in {" ", "\t", "\n", "\r"}
toupper(c) == IF islower(c) THEN AsciiPrintable[Ord(c) - 32 - 31] ELSE c

(***************************************************************************)
(* C strings: offsets are 0-based, as pointer differences in the source   *)
(***************************************************************************)
NULLPTR == -1

CharAt(s, i) == IF i >= 0 /\ i < Len(s) THEN s[i + 1] ELSE NUL

\* s[from .. to-1]
Slice(s, from, to) == SubSeq(s, from + 1, to)

\* Body(v), with v computed once
With(v, Body(_)) == Body(v)

Min(S) == CHOOSE x \in S : \A y \in S : x <= y
Max(S) == CHOOSE x \in S : \A y \in S : x >= y

\* offset of the first c at or after from; NULLPTR when there is none
strchr(s, from, c) ==
  With({i \in from..(Len(s) - 1) : s[i + 1] = c},
       LAMBDA hits : IF hits # {} THEN Min(hits) ELSE NULLPTR)

\* offset of the last c; NULLPTR when there is none
strrchr(s, c) ==
  With({i \in 0..(Len(s) - 1) : s[i + 1] = c},
       LAMBDA hits : IF hits # {} THEN Max(hits) ELSE NULLPTR)

\* the loop  while (In(s[p])) p++  : the end of the run of characters in In
\* that starts at p (NUL ends every run)
SpanEnd(s, p, In(_)) ==
  IF p >= Len(s) THEN p
  ELSE Min({j \in p..Len(s) : j = Len(s) \/ ~In(s[j + 1])})

skipleading(s, i) == SpanEnd(s, i, LAMBDA c : Ord(c) <= 32)

skiptrailing(s, base, end) ==
  IF end <= base THEN end
  ELSE Max({e \in base..end : e = base \/ Ord(CharAt(s, e - 1)) > 32})

RECURSIVE MapUpper(_)
MapUpper(s) == IF s = <<>> THEN <<>> ELSE <<toupper(Head(s))>> \o MapUpper(Tail(s))

\* strcmp(a, b) == 0
StrEq(a, b) == a = b
\* stricmp(a, b) == 0
StrIEq(a, b) == MapUpper(a) = MapUpper(b)
\* strncmp(a, b, n) == 0, for a taken at offset from
StrNEq(a, from, b, n) ==
  \A k \in 0..(n - 1) :
     (\A j \in 0..(k - 1) : CharAt(b, j) # NUL) => CharAt(a, from + k) = CharAt(b, k)

(***************************************************************************)
(* Matcher                                                                 *)
(***************************************************************************)
sizeof_matchname == 50

\* architecture_match() with an "x" as wild-card in either string
architecture_match_either(architecture, mcufamily) ==
  /\ \A i \in 0..(Min({Len(architecture), Len(mcufamily)}) - 1) :
        \/ CharAt(architecture, i) = "x"
        \/ CharAt(mcufamily, i) = "x"
        \/ toupper(CharAt(architecture, i)) = toupper(CharAt(mcufamily, i))
  /\ Len(architecture) = Len(mcufamily)

\* the for-loop runs to the end of the shorter string and returns 0 at the
\* first position that differs; the final test holds when both strings end there
architecture_match(architecture, mcufamily) ==
  /\ \A i \in 0..(Min({Len(architecture), Len(mcufamily)}) - 1) :
        \/ CharAt(architecture, i) = "x"
        \/ toupper(CharAt(architecture, i)) = toupper(CharAt(mcufamily, i))
  /\ Len(architecture) = Len(mcufamily)

\* the length of the family name after the architecture suffix is stripped
mcu_namelen(mcufamily) ==
  With(strrchr(mcufamily, " "), LAMBDA separator :
    IF separator # NULLPTR /\ CharAt(mcufamily, separator + 1) = "M"
       /\ isdigit(CharAt(mcufamily, separator + 2))
    THEN skiptrailing(mcufamily, 0, separator)
    ELSE Len(mcufamily))

\* end of the list entry that starts at head
EntrySeparator(list, head) ==
  With(strchr(list, head, ","),
       LAMBDA separator : IF separator = NULLPTR THEN Len(list) ELSE separator)

NextEntry(list, separator) ==
  IF CharAt(list, separator) # NUL THEN skipleading(list, separator + 1) ELSE separator

\* the values head takes in the loops over the list: the start of the list
\* and the position after each separator, up to the end of the string
EntryHeads(list) ==
  {head \in {skipleading(list, 0)}
             \cup {NextEntry(list, separator) :
                     separator \in {i \in 0..(Len(list) - 1) : list[i + 1] = ","}} :
     CharAt(list, head) # NUL}

\* first loop, for the entry at head: exact match
mcu_match_exact(mcufamily, namelen, list, head) ==
  With(skiptrailing(list, head, EntrySeparator(list, head)) - head, LAMBDA matchlen :
    /\ matchlen = namelen
    /\ matchlen < sizeof_matchname
    /\ architecture_match(Slice(list, head, head + matchlen), mcufamily))

\* the second loop, also matching a name as long as the prefix
mcu_match_prefix_equal(mcufamily, namelen, list, head) ==
  With(strchr(list, head, "*"), LAMBDA wildcard :
    /\ wildcard # NULLPTR
    /\ wildcard < skiptrailing(list, head, EntrySeparator(list, head))
    /\ \/ wildcard - head = 0
       \/ /\ namelen >= wildcard - head
          /\ wildcard - head < sizeof_matchname
          /\ architecture_match(Slice(list, head, wildcard),
                                Slice(mcufamily, 0, wildcard - head)))

\* second loop, for the entry at head: match on prefix
mcu_match_prefix(mcufamily, namelen, list, head) ==
  With(strchr(list, head, "*"), LAMBDA wildcard :
    /\ wildcard # NULLPTR
    /\ wildcard < skiptrailing(list, head, EntrySeparator(list, head))
    /\ \/ wildcard - head = 0
       \/ /\ namelen > wildcard - head
          /\ wildcard - head < sizeof_matchname
          /\ architecture_match(Slice(list, head, wildcard),
                                Slice(mcufamily, 0, wildcard - head)))

mcu_match(mcufamily, list) ==
  With(mcu_namelen(mcufamily), LAMBDA namelen :
    \/ \E head \in EntryHeads(list) : mcu_match_exact(mcufamily, namelen, list, head)
    \/ \E head \in EntryHeads(list) : mcu_match_prefix(mcufamily, namelen, list, head))

(***************************************************************************)
(* uint32_t values are pairs <<high half, low half>> of 16-bit numbers,   *)
(* so that all arithmetic is modulo 2^32                                   *)
(***************************************************************************)
Half == 65536

U32(hi, lo) == <<hi, lo>>
U32Zero == U32(0, 0)
\* ~v
U32Not(v) == U32(Half - 1 - v[1], Half - 1 - v[2])
\* v + d, for a small (possibly negative) int d
U32Add(v, d) ==
  With(v[2] + d, LAMBDA lo : U32((v[1] + (lo \div Half)) % Half, lo % Half))
\* v * base + d
U32MulAdd(v, base, d) ==
  With(v[2] * base + d, LAMBDA lo : U32((v[1] * base + (lo \div Half)) % Half, lo % Half))
\* -v
U32Neg(v) == U32Add(U32Not(v), 1)
\* v & 0xff, v & 0xffff, v & ~0xf, v & 0xf
U32Byte(v) == U32(0, v[2] % 256)
U32Short(v) == U32(0, v[2])
U32ClearLow4(v) == U32(v[1], v[2] - (v[2] % 16))
U32Low4(v) == v[2] % 16

\* bmp-script.h is not part of the sources at hand; the value is the one the
\* specification recommends
SCRIPT_MAGIC == U32(\hFFFF, \hFFF0)
\* ~0, the "variable not present" marker
U32AllOnes == U32(\hFFFF, \hFFFF)

HexChars == <<"0","1","2","3","4","5","6","7","8","9","a","b","c","d","e","f">>

RECURSIVE StripZeros(_)
StripZeros(s) == IF Len(s) > 1 /\ Head(s) = "0" THEN StripZeros(Tail(s)) ELSE s

\* printf("%x", v)
FmtHex(v) ==
  StripZeros(<< HexChars[(v[1] \div 4096) + 1], HexChars[((v[1] \div 256) % 16) + 1],
                HexChars[((v[1] \div 16) % 16) + 1], HexChars[(v[1] % 16) + 1],
                HexChars[(v[2] \div 4096) + 1], HexChars[((v[2] \div 256) % 16) + 1],
                HexChars[((v[2] \div 16) % 16) + 1], HexChars[(v[2] % 16) + 1] >>)

\* the value of c as a digit; 99 when c is no digit in any base
DigitVal(c) ==
  IF isdigit(c) THEN Ord(c) - 48
  ELSE IF Ord(c) >= 97 /\ Ord(c) <= 102 THEN Ord(c) - 87
  ELSE IF Ord(c) >= 65 /\ Ord(c) <= 70 THEN Ord(c) - 55
  ELSE 99

\* the value of the digits s[from .. to-1] in the base, accumulated on acc
RECURSIVE DigitsValue(_, _, _, _, _)
DigitsValue(s, from, to, base, acc) ==
  IF acc[2] >= 0 /\ to <= from THEN acc
  ELSE DigitsValue(s, from + 1, to, base, U32MulAdd(acc, base, DigitVal(CharAt(s, from))))

strtoul_digits(s, p, base) ==
  With(SpanEnd(s, p, LAMBDA c : DigitVal(c) < base),
       LAMBDA end : [val |-> DigitsValue(s, p, end, base, U32Zero), end |-> end])

skipspace(s, p) == SpanEnd(s, p, isspace)

\* strtoul(s + p, &end, 0), truncated to 32 bits
strtoul(s, p) ==
  With(skipspace(s, p), LAMBDA q :
  With(IF CharAt(s, q) \in {"-", "+"} THEN q + 1 ELSE q, LAMBDA d :
  With(IF /\ CharAt(s, d) = "0"
          /\ CharAt(s, d + 1) \in {"x", "X"}
          /\ DigitVal(CharAt(s, d + 2)) < 16
       THEN strtoul_digits(s, d + 2, 16)
       ELSE IF CharAt(s, d) = "0" THEN strtoul_digits(s, d, 8)
       ELSE strtoul_digits(s, d, 10), LAMBDA r :
    IF r.end = d THEN [val |-> U32Zero, end |-> p]
    ELSE [val |-> IF CharAt(s, q) = "-" THEN U32Neg(r.val) ELSE r.val, end |-> r.end])))

(***************************************************************************)
(* Parser                                                                  *)
(***************************************************************************)
\* end of the identifier that starts at p
IdentTail(s, p) == SpanEnd(s, p, LAMBDA c : isalnum(c) \/ c = "_")

\* index of the first register whose name compares equal over the n characters
\* at s + p; Len(registers) + 1 when there is none
FindRegister(s, p, n, registers) ==
  Min({r \in 1..(Len(registers) + 1) :
         r = Len(registers) + 1 \/ StrNEq(s, p, registers[r].name, n)})

\* the #ifndef NDEBUG loop: skip blanks up to the end of the line
skiptrailingblanks(s, p) == SpanEnd(s, p, LAMBDA c : c # "\n" /\ Ord(c) <= 32)

\* the address part of a line: a number, a parameter or a register.
\* A register that is not found is read from registers[reg_count], memory the
\* loader never wrote: the address and size then are those of stale.
\*   end: the position after the address; failed: assert(r < reg_count) fails
parseline_address(s, p, registers, stale) ==
  IF isdigit(CharAt(s, p))
  THEN With(strtoul(s, p), LAMBDA num :
         [address |-> num.val, size |-> 4, end |-> num.end, failed |-> FALSE])
  ELSE IF CharAt(s, p) = "$"
  THEN [address |-> U32Add(SCRIPT_MAGIC, Ord(CharAt(s, p + 1)) - 48), size |-> 4,
        end |-> p + 2, failed |-> FALSE]
  ELSE With(IdentTail(s, p), LAMBDA tail :
       With(FindRegister(s, p, tail - p, registers), LAMBDA r :
         IF r <= Len(registers)
         THEN [address |-> registers[r].address, size |-> registers[r].size,
               end |-> tail, failed |-> FALSE]
         ELSE [address |-> stale.address, size |-> stale.size, end |-> tail,
               failed |-> TRUE]))

\* parseline_value() that does not invert a number
parseline_value_keep(s, p, oper, invert) ==
  IF CharAt(s, p) = "$"
  THEN [value |-> U32Add(SCRIPT_MAGIC, Ord(CharAt(s, p + 1)) - 48),
        oper |-> IF oper = "&" /\ invert THEN "~" ELSE oper,
        end |-> p + 2, failed |-> invert /\ oper # "&"]
  ELSE With(strtoul(s, p), LAMBDA val :
         [value |-> val.val, oper |-> oper, end |-> val.end, failed |-> FALSE])

\* the value part of a line, at p: a parameter or a number.
\*   oper is '&' after a '~' operator; invert: the value is to be inverted;
\*   end: the position after the value;
\*   failed: assert(!invert || *oper == '&') fails
parseline_value(s, p, oper, invert) ==
  IF CharAt(s, p) = "$"
  THEN [value |-> U32Add(SCRIPT_MAGIC, Ord(CharAt(s, p + 1)) - 48),
        oper |-> IF oper = "&" /\ invert THEN "~" ELSE oper,
        end |-> p + 2, failed |-> invert /\ oper # "&"]
  ELSE With(strtoul(s, p), LAMBDA val :
         [value |-> IF invert THEN U32Not(val.val) ELSE val.val, oper |-> oper,
          end |-> val.end, failed |-> FALSE])

\* parseline(), for the line that starts at s + start: the compiled
\* instruction, the position after the line (next), and
\*   failed: an assert() of the function does not hold
\*   unresolved: the register was not found
parseline(s, start, registers, stale) ==
  With(skipleading(s, start), LAMBDA p0 :
  \* ignore any "set" command
  With(IF StrNEq(s, p0, <<"s","e","t">>, 3) /\ Ord(CharAt(s, p0 + 3)) <= 32
       THEN skipleading(s, p0 + 3) ELSE p0, LAMBDA p1 :
  \* memory address or register
  With(parseline_address(s, p1, registers, stale), LAMBDA dest :
  \* operation
  With(skipleading(s, dest.end), LAMBDA p2 :
  With(CharAt(s, p2), LAMBDA opchar :
  With(skipleading(s, IF CharAt(s, p2 + 1) = "=" THEN p2 + 2 ELSE p2 + 1), LAMBDA p4 :
  \* parameter
  With(parseline_value(s, IF CharAt(s, p4) = "~" THEN skipleading(s, p4 + 1) ELSE p4,
                       IF opchar = "~" THEN "&" ELSE opchar,
                       (opchar = "~") # (CharAt(s, p4) = "~")), LAMBDA val :
    [oper |-> val.oper, address |-> dest.address, value |-> val.value, size |-> dest.size,
     next |-> skipleading(s, val.end),
     failed |-> \/ dest.failed
                \/ opchar \notin {"=", "|", "&", "~"}
                \/ val.failed
                \/ CharAt(s, skiptrailingblanks(s, val.end)) \notin {"\n", NUL},
     unresolved |-> dest.failed])))))))

(***************************************************************************)
(* Hard-coded registers and scripts                                        *)
(***************************************************************************)
register_defaults ==
  <<
    [name |-> <<"S","Y","S","C","O","N","_","S","Y","S","M","E","M","R","E","M","A","P">>,
     address |-> U32(\h4004, \h8000), size |-> 4,
     mcu_list |-> <<"L","P","C","8","x","x",",","L","P","C","1","1","x","x","*",",","L","P","C","1","1","U","x","x",",","L","P","C","1","2","x","x",",","L","P","C","1","3","x","x">>],
    [name |-> <<"S","Y","S","C","O","N","_","S","Y","S","M","E","M","R","E","M","A","P">>,
     address |-> U32(\h4007, \h4000), size |-> 4,
     mcu_list |-> <<"L","P","C","1","5","x","x">>],
    [name |-> <<"S","C","B","_","M","E","M","M","A","P">>,
     address |-> U32(\h400F, \hC040), size |-> 4,
     mcu_list |-> <<"L","P","C","1","7","x","x">>],
    [name |-> <<"S","C","B","_","M","E","M","M","A","P">>,
     address |-> U32(\hE01F, \hC040), size |-> 4,
     mcu_list |-> <<"L","P","C","2","1","x","x",",","L","P","C","2","2","x","x",",","L","P","C","2","3","x","x",",","L","P","C","2","4","x","x">>],
    [name |-> <<"M","4","M","E","M","M","A","P">>,
     address |-> U32(\h4004, \h3100), size |-> 4,
     mcu_list |-> <<"L","P","C","4","3","x","x","*">>],
    [name |-> <<"R","C","C","_","A","P","B","2","E","N","R">>,
     address |-> U32(\h4002, \h1018), size |-> 4,
     mcu_list |-> <<"S","T","M","3","2","F","1","*">>],
    [name |-> <<"A","F","I","O","_","M","A","P","R">>,
     address |-> U32(\h4001, \h0004), size |-> 4,
     mcu_list |-> <<"S","T","M","3","2","F","1","*">>],
    [name |-> <<"R","C","C","_","A","H","B","1","E","N","R">>,
     address |-> U32(\h4002, \h3830), size |-> 4,
     mcu_list |-> <<"S","T","M","3","2","F","4","*",",","S","T","M","3","2","F","7","*">>],
    [name |-> <<"G","P","I","O","B","_","M","O","D","E","R">>,
     address |-> U32(\h4002, \h0400), size |-> 4,
     mcu_list |-> <<"S","T","M","3","2","F","4","*",",","S","T","M","3","2","F","7","*">>],
    [name |-> <<"G","P","I","O","B","_","A","F","R","L">>,
     address |-> U32(\h4002, \h0420), size |-> 4,
     mcu_list |-> <<"S","T","M","3","2","F","4","*",",","S","T","M","3","2","F","7","*">>],
    [name |-> <<"G","P","I","O","B","_","O","S","P","E","E","D","R">>,
     address |-> U32(\h4002, \h0408), size |-> 4,
     mcu_list |-> <<"S","T","M","3","2","F","4","*",",","S","T","M","3","2","F","7","*">>],
    [name |-> <<"G","P","I","O","B","_","P","U","P","D","R">>,
     address |-> U32(\h4002, \h040C), size |-> 4,
     mcu_list |-> <<"S","T","M","3","2","F","4","*",",","S","T","M","3","2","F","7","*">>],
    [name |-> <<"D","B","G","M","C","U","_","C","R">>,
     address |-> U32(\hE004, \h2004), size |-> 4,
     mcu_list |-> <<"S","T","M","3","2","F","0","3",",","S","T","M","3","2","F","0","5",",","S","T","M","3","2","F","0","7",",","S","T","M","3","2","F","0","9",",","S","T","M","3","2","F","1","*",",","S","T","M","3","2","F","2","*",",","S","T","M","3","2","F","3","*",",","S","T","M","3","2","F","4","*",",","S","T","M","3","2","F","7","*">>],
    [name |-> <<"T","R","A","C","E","C","L","K","D","I","V">>,
     address |-> U32(\h4004, \h80AC), size |-> 4,
     mcu_list |-> <<"L","P","C","1","3","x","x">>],
    [name |-> <<"T","R","A","C","E","C","L","K","D","I","V">>,
     address |-> U32(\h4007, \h40D8), size |-> 4,
     mcu_list |-> <<"L","P","C","1","5","x","x">>],
    [name |-> <<"I","O","C","O","N","_","P","I","O","0","_","9">>,
     address |-> U32(\h4004, \h4024), size |-> 4,
     mcu_list |-> <<"L","P","C","1","3","x","x">>],
    [name |-> <<"S","C","B","_","D","H","C","S","R">>,
     address |-> U32(\hE000, \hEDF0), size |-> 4,
     mcu_list |-> <<"*">>],
    [name |-> <<"S","C","B","_","D","C","R","S","R">>,
     address |-> U32(\hE000, \hEDF4), size |-> 4,
     mcu_list |-> <<"*">>],
    [name |-> <<"S","C","B","_","D","C","R","D","R">>,
     address |-> U32(\hE000, \hEDF8), size |-> 4,
     mcu_list |-> <<"*">>],
    [name |-> <<"S","C","B","_","D","E","M","C","R">>,
     address |-> U32(\hE000, \hEDFC), size |-> 4,
     mcu_list |-> <<"*">>],
    [name |-> <<"T","P","I","U","_","S","S","P","S","R">>,
     address |-> U32(\hE004, \h0000), size |-> 4,
     mcu_list |-> <<"*">>],
    [name |-> <<"T","P","I","U","_","C","S","P","S","R">>,
     address |-> U32(\hE004, \h0004), size |-> 4,
     mcu_list |-> <<"*">>],
    [name |-> <<"T","P","I","U","_","A","C","P","R">>,
     address |-> U32(\hE004, \h0010), size |-> 4,
     mcu_list |-> <<"*">>],
    [name |-> <<"T","P","I","U","_","S","P","P","R">>,
     address |-> U32(\hE004, \h00F0), size |-> 4,
     mcu_list |-> <<"*">>],
    [name |-> <<"T","P","I","U","_","F","F","C","R">>,
     address |-> U32(\hE004, \h0304), size |-> 4,
     mcu_list |-> <<"*">>],
    [name |-> <<"T","P","I","U","_","D","E","V","I","D">>,
     address |-> U32(\hE004, \h0FC8), size |-> 4,
     mcu_list |-> <<"*">>],
    [name |-> <<"D","W","T","_","C","T","R","L">>,
     address |-> U32(\hE000, \h1000), size |-> 4,
     mcu_list |-> <<"*">>],
    [name |-> <<"D","W","T","_","C","Y","C","C","N","T">>,
     address |-> U32(\hE000, \h1004), size |-> 4,
     mcu_list |-> <<"*">>],
    [name |-> <<"I","T","M","_","T","E","R">>,
     address |-> U32(\hE000, \h0E00), size |-> 4,
     mcu_list |-> <<"*">>],
    [name |-> <<"I","T","M","_","T","P","R">>,
     address |-> U32(\hE000, \h0E40), size |-> 4,
     mcu_list |-> <<"*">>],
    [name |-> <<"I","T","M","_","T","C","R">>,
     address |-> U32(\hE000, \h0E80), size |-> 4,
     mcu_list |-> <<"*">>],
    [name |-> <<"I","T","M","_","L","A","R">>,
     address |-> U32(\hE000, \h0FB0), size |-> 4,
     mcu_list |-> <<"*">>],
    [name |-> <<"I","T","M","_","I","W","R">>,
     address |-> U32(\hE000, \h0EF8), size |-> 4,
     mcu_list |-> <<"*">>],
    [name |-> <<"I","T","M","_","I","R","R">>,
     address |-> U32(\hE000, \h0EFC), size |-> 4,
     mcu_list |-> <<"*">>],
    [name |-> <<"I","T","M","_","I","M","C","R">>,
     address |-> U32(\hE000, \h0F00), size |-> 4,
     mcu_list |-> <<"*">>],
    [name |-> <<"I","T","M","_","L","S","R">>,
     address |-> U32(\hE000, \h0FB4), size |-> 4,
     mcu_list |-> <<"*">>]
  >>

script_defaults ==
  <<
    [name |-> <<"m","e","m","r","e","m","a","p">>,
     mcu_list |-> <<"L","P","C","8","x","x",",","L","P","C","1","1","x","x","*",",","L","P","C","1","1","U","x","x",",","L","P","C","1","2","x","x",",","L","P","C","1","3","x","x">>,
     script |->
       <<"S","Y","S","C","O","N","_","S","Y","S","M","E","M","R","E","M","A","P"," ","="," ","2">>],
    [name |-> <<"m","e","m","r","e","m","a","p">>,
     mcu_list |-> <<"L","P","C","1","5","x","x">>,
     script |->
       <<"S","Y","S","C","O","N","_","S","Y","S","M","E","M","R","E","M","A","P"," ","="," ","2">>],
    [name |-> <<"m","e","m","r","e","m","a","p">>,
     mcu_list |-> <<"L","P","C","1","7","x","x">>,
     script |->
       <<"S","C","B","_","M","E","M","M","A","P"," ","="," ","1">>],
    [name |-> <<"m","e","m","r","e","m","a","p">>,
     mcu_list |-> <<"L","P","C","2","1","x","x",",","L","P","C","2","2","x","x",",","L","P","C","2","3","x","x",",","L","P","C","2","4","x","x">>,
     script |->
       <<"S","C","B","_","M","E","M","M","A","P"," ","="," ","1">>],
    [name |-> <<"m","e","m","r","e","m","a","p">>,
     mcu_list |-> <<"L","P","C","4","3","x","x","*">>,
     script |->
       <<"M","4","M","E","M","M","A","P"," ","="," ","0">>],
    [name |-> <<"s","w","o","_","d","e","v","i","c","e">>,
     mcu_list |-> <<"S","T","M","3","2","F","1","*">>,
     script |->
       <<"R","C","C","_","A","P","B","2","E","N","R"," ","|","="," ","1"," ","\n">>
       \o <<"A","F","I","O","_","M","A","P","R"," ","|","="," ","0","x","2","0","0","0","0","0","0"," ","\n">>
       \o <<"D","B","G","M","C","U","_","C","R"," ","|","="," ","0","x","2","0"," ","\n">>],
    [name |-> <<"s","w","o","_","d","e","v","i","c","e">>,
     mcu_list |-> <<"S","T","M","3","2","F","0","3",",","S","T","M","3","2","F","0","5",",","S","T","M","3","2","F","0","7",",","S","T","M","3","2","F","0","9",",","S","T","M","3","2","F","2","*",",","S","T","M","3","2","F","3","*">>,
     script |->
       <<"D","B","G","M","C","U","_","C","R"," ","|","="," ","0","x","2","0"," ","\n">>],
    [name |-> <<"s","w","o","_","d","e","v","i","c","e">>,
     mcu_list |-> <<"S","T","M","3","2","F","4","*",",","S","T","M","3","2","F","7","*">>,
     script |->
       <<"R","C","C","_","A","H","B","1","E","N","R"," ","|","="," ","0","x","0","2"," ","\n">>
       \o <<"G","P","I","O","B","_","M","O","D","E","R"," ","~","="," ","0","x","0","0","c","0"," ","\n">>
       \o <<"G","P","I","O","B","_","M","O","D","E","R"," ","|","="," ","0","x","0","0","8","0"," ","\n">>
       \o <<"G","P","I","O","B","_","A","F","R","L"," ","~","="," ","0","x","f","0","0","0"," ","\n">>
       \o <<"G","P","I","O","B","_","O","S","P","E","E","D","R"," ","|","="," ","0","x","0","0","c","0"," ","\n">>
       \o <<"G","P","I","O","B","_","P","U","P","D","R"," ","~","="," ","0","x","0","0","c","0"," ","\n">>
       \o <<"D","B","G","M","C","U","_","C","R"," ","|","="," ","0","x","2","0"," ","\n">>],
    [name |-> <<"s","w","o","_","d","e","v","i","c","e">>,
     mcu_list |-> <<"L","P","C","1","3","x","x">>,
     script |->
       <<"T","R","A","C","E","C","L","K","D","I","V"," ","="," ","1"," ","\n">>
       \o <<"I","O","C","O","N","_","P","I","O","0","_","9"," ","="," ","0","x","9","3"," ","\n">>],
    [name |-> <<"s","w","o","_","d","e","v","i","c","e">>,
     mcu_list |-> <<"L","P","C","1","5","x","x">>,
     script |->
       <<"T","R","A","C","E","C","L","K","D","I","V"," ","="," ","1","\n">>],
    [name |-> <<"s","w","o","_","g","e","n","e","r","i","c">>,
     mcu_list |-> <<"*">>,
     script |->
       <<"S","C","B","_","D","E","M","C","R"," ","="," ","0","x","1","0","0","0","0","0","0"," ","\n">>
       \o <<"T","P","I","U","_","C","S","P","S","R"," ","="," ","1"," ","\n">>
       \o <<"T","P","I","U","_","S","P","P","R"," ","="," ","$","0"," ","\n">>
       \o <<"T","P","I","U","_","A","C","P","R"," ","="," ","$","1"," ","\n">>
       \o <<"T","P","I","U","_","F","F","C","R"," ","="," ","0"," ","\n">>
       \o <<"I","T","M","_","L","A","R"," ","="," ","0","x","C","5","A","C","C","E","5","5"," ","\n">>
       \o <<"I","T","M","_","T","C","R"," ","="," ","0","x","1","1"," ","\n">>
       \o <<"I","T","M","_","T","P","R"," ","="," ","0"," ","\n">>],
    [name |-> <<"s","w","o","_","g","e","n","e","r","i","c">>,
     mcu_list |-> <<"[","M","0","]">>,
     script |->
       <<"$","3"," ","="," ","$","2"," ","\n">>],
    [name |-> <<"s","w","o","_","c","h","a","n","n","e","l","s">>,
     mcu_list |-> <<"*">>,
     script |->
       <<"I","T","M","_","T","E","R"," ","="," ","$","0"," ","\n">>],
    [name |-> <<"s","w","o","_","c","h","a","n","n","e","l","s">>,
     mcu_list |-> <<"[","M","0","]">>,
     script |->
       <<"$","1"," ","="," ","$","0"," ","\n">>]
  >>


(***************************************************************************)
(* Loader                                                                  *)
(***************************************************************************)
\* the line up to a '#'
StripComment(line) ==
  With(strchr(line, 0, "#"),
       LAMBDA ptr : IF ptr # NULLPTR THEN Slice(line, 0, ptr) ELSE line)

\* end of the run of non-blank characters that starts at p (scanf "%s")
ScanWord(s, p) == SpanEnd(s, p, LAMBDA c : ~isspace(c))

\* end of the run of characters other than ']' that starts at p (scanf "%[^]]")
ScanList(s, p) == SpanEnd(s, p, LAMBDA c : c # "]")

\* sscanf(line, "define %s [%[^]]] = %s", name, mcu_list, address): the number
\* of fields assigned and their text; the shorter format "define %s [%[^]]]"
\* assigns the same first two fields
sscanf_define(line) ==
  With(skipspace(line, 6), LAMBDA n0 :
  With(ScanWord(line, n0), LAMBDA n1 :
  With(skipspace(line, n1), LAMBDA l0 :
  With(ScanList(line, l0 + 1), LAMBDA l1 :
  With(skipspace(line, l1 + 1), LAMBDA e0 :
  With(skipspace(line, e0 + 1), LAMBDA a0 :
  With(ScanWord(line, a0), LAMBDA a1 :
    IF ~StrNEq(line, 0, <<"d","e","f","i","n","e">>, 6) \/ n1 = n0
    THEN [count |-> 0, name |-> <<>>, mcu_list |-> <<>>, address |-> <<>>]
    ELSE IF CharAt(line, l0) # "[" \/ l1 = l0 + 1
    THEN [count |-> 1, name |-> Slice(line, n0, n1), mcu_list |-> <<>>, address |-> <<>>]
    ELSE IF CharAt(line, l1) # "]" \/ CharAt(line, e0) # "=" \/ a1 = a0
    THEN [count |-> 2, name |-> Slice(line, n0, n1), mcu_list |-> Slice(line, l0 + 1, l1),
          address |-> <<>>]
    ELSE [count |-> 3, name |-> Slice(line, n0, n1), mcu_list |-> Slice(line, l0 + 1, l1),
          address |-> Slice(line, a0, a1)])))))))

\* the address and size of a register definition in the file
RegisterAddress(address) ==
  With(strchr(address, 0, "}"), LAMBDA ptr :
    IF CharAt(address, 0) = "{" /\ ptr # NULLPTR
    THEN [address |-> strtoul(address, ptr + 1).val,
          size |-> IF StrNEq(address, 0, <<"{","s","h","o","r","t","}">>, 7) THEN 2
                   ELSE IF \/ StrNEq(address, 0, <<"{","c","h","a","r","}">>, 6)
                           \/ StrNEq(address, 0, <<"{","b","y","t","e","}">>, 6) THEN 1
                   ELSE 4]
    ELSE [address |-> strtoul(address, 0).val, size |-> 4])

\* DefaultRegisters() that takes the registers whose MCU list has the MCU
\* family as an entry, and none by a wildcard "*"
DefaultRegistersExact(mcu) ==
  With(SelectSeq(register_defaults,
                 LAMBDA def : \E head \in EntryHeads(def.mcu_list) :
                                 mcu_match_exact(mcu, mcu_namelen(mcu), def.mcu_list, head)),
       LAMBDA matching : [r \in 1..Len(matching) |-> [name |-> matching[r].name,
                                                      address |-> matching[r].address,
                                                      size |-> matching[r].size]])

\* DefaultRegisters() that takes every hard-coded register, whatever its MCU list
DefaultRegistersAll(mcu) ==
  [r \in 1..Len(register_defaults) |-> [name |-> register_defaults[r].name,
                                        address |-> register_defaults[r].address,
                                        size |-> register_defaults[r].size]]

\* first step: the hard-coded registers that match the MCU, in table order
DefaultRegisters(mcu) ==
  With(SelectSeq(register_defaults, LAMBDA def : mcu_match(mcu, def.mcu_list)),
       LAMBDA matching : [r \in 1..Len(matching) |-> [name |-> matching[r].name,
                                                      address |-> matching[r].address,
                                                      size |-> matching[r].size]])

\* index of the register with this name; Len(registers) + 1 when there is none
RegisterIndex(registers, regname) ==
  Min({idx \in 1..(Len(registers) + 1) :
         idx = Len(registers) + 1 \/ StrEq(registers[idx].name, regname)})

\* FileRegister() that adds every register of the file at the end, also one
\* whose name is in the list
FileRegisterAppend(mcu, registers, def) ==
  IF def.count = 3 /\ mcu_match(mcu, def.mcu_list)
  THEN With(RegisterAddress(def.address), LAMBDA reg :
         Append(registers, [name |-> def.name, address |-> reg.address, size |-> reg.size]))
  ELSE registers

\* second step, one line of the file: a register definition that matches the
\* MCU replaces the address and size of the register with that name, or is
\* added at the end
FileRegister(mcu, registers, def) ==
  IF def.count = 3 /\ mcu_match(mcu, def.mcu_list)
  THEN With(RegisterAddress(def.address), LAMBDA reg :
       With(RegisterIndex(registers, def.name), LAMBDA idx :
         IF idx <= Len(registers)
         THEN [registers EXCEPT ![idx].address = reg.address, ![idx].size = reg.size]
         ELSE Append(registers, [name |-> def.name, address |-> reg.address,
                                 size |-> reg.size])))
  ELSE registers

\* second step: the register list after the lines lo..hi of the file are read,
\* in order, into the list registers (the loop is split in two halves)
RECURSIVE FileRegisters(_, _, _, _, _)
FileRegisters(mcu, file, lo, hi, registers) ==
  IF Len(registers) >= 0 /\ lo = hi
  THEN FileRegister(mcu, registers, sscanf_define(StripComment(file[lo])))
  ELSE FileRegisters(mcu, file, ((lo + hi) \div 2) + 1, hi,
                     FileRegisters(mcu, file, lo, (lo + hi) \div 2, registers))

\* the register table bmscript_load() parses the scripts against
LoadRegisters(mcu, file) ==
  IF file = <<>> THEN DefaultRegisters(mcu)
  ELSE FileRegisters(mcu, file, 1, Len(file), DefaultRegisters(mcu))

\* "[arch]", or empty when no architecture is given
ArchName(arch) == IF Len(arch) > 0 THEN <<"[">> \o arch \o <<"]">> ELSE <<>>

\* ScriptApplies() that takes no account of the architecture
ScriptAppliesMcu(mcu, arch_name, mcu_list) == mcu_match(mcu, mcu_list)

\* the MCU-list matches the MCU family or the architecture
ScriptApplies(mcu, arch_name, mcu_list) ==
  \/ mcu_match(mcu, mcu_list)
  \/ (CharAt(arch_name, 0) # NUL /\ mcu_match(arch_name, mcu_list))

Instruction(pl) == [oper |-> pl.oper, address |-> pl.address, value |-> pl.value, size |-> pl.size]

\* one more line of the script: its instruction is added to the lines and head
\* moves to where parseline() stopped
CompileLine(acc, pl) ==
  [head |-> pl.next, lines |-> Append(acc.lines, Instruction(pl)),
   failed |-> acc.failed \/ pl.failed]

\* the lines of a hard-coded script, parsed one after the other from acc.head
RECURSIVE CompileScript(_, _, _, _)
CompileScript(script, registers, stale, acc) ==
  IF CharAt(script, acc.head) = NUL THEN acc
  ELSE CompileScript(script, registers, stale,
                     CompileLine(acc, parseline(script, acc.head, registers, stale)))

\* interpret the hard-coded scripts that apply; each is added at the front of
\* the list, so the list holds them in reverse table order
DefaultScripts(mcu, arch_name, registers, stale) ==
  With(SelectSeq(script_defaults, LAMBDA def : ScriptApplies(mcu, arch_name, def.mcu_list)),
       LAMBDA applying :
  With([k \in 1..Len(applying) |->
          CompileScript(applying[k].script, registers, stale,
                        [head |-> skipleading(applying[k].script, 0), lines |-> <<>>,
                         failed |-> FALSE])],
       LAMBDA compiled :
    [inscript |-> FALSE, scriptname |-> <<>>, lines |-> <<>>,
     scripts |-> [k \in 1..Len(applying) |->
                    [name |-> applying[Len(applying) + 1 - k].name,
                     lines |-> compiled[Len(applying) + 1 - k].lines]],
     failed |-> \E k \in 1..Len(applying) : compiled[k].failed]))

\* the reading loop of the file, for one line that is not blank:
\*   st.inscript, st.scriptname, st.lines: the script being read
\*   st.scripts: the script list; st.failed: an assert() did not hold
\*   def: what sscanf() makes of the line; scanned: st with the name it assigned
FileLine(mcu, arch_name, registers, stale, st, line, def, scanned) ==
  IF /\ def.count >= 2
     /\ strchr(line, 0, "=") = NULLPTR
     /\ ScriptApplies(mcu, arch_name, def.mcu_list)
  THEN [scanned EXCEPT !.inscript = TRUE, !.lines = <<>>, !.failed = @ \/ st.inscript]
  ELSE IF /\ st.inscript
          /\ StrNEq(line, 0, <<"e","n","d">>, 3)
          /\ Ord(CharAt(line, 3)) <= 32
  THEN [scanned EXCEPT !.inscript = FALSE, !.lines = <<>>,
          !.scripts = <<[name |-> scanned.scriptname, lines |-> st.lines]>> \o @]
  ELSE IF st.inscript
  THEN With(parseline(line, 0, registers, stale), LAMBDA pl :
         [scanned EXCEPT !.lines = Append(@, Instruction(pl)),
                         !.failed = @ \/ pl.failed])
  ELSE scanned

\* the state of the reading loop after one more line
FileStep(mcu, arch_name, registers, stale, st, line) ==
  IF CharAt(line, skipleading(line, 0)) = NUL THEN st
  ELSE With(sscanf_define(line), LAMBDA def :
         FileLine(mcu, arch_name, registers, stale, st, line, def,
                  [st EXCEPT !.scriptname = IF def.count >= 1 THEN def.name ELSE @]))

\* the state of the reading loop after the lines lo..hi of the file are read,
\* in order, from the state st (the loop is split in two halves)
RECURSIVE FileScripts(_, _, _, _, _, _, _, _)
FileScripts(mcu, arch_name, registers, stale, file, lo, hi, st) ==
  IF st.inscript \in BOOLEAN /\ lo = hi
  THEN FileStep(mcu, arch_name, registers, stale, st, StripComment(file[lo]))
  ELSE FileScripts(mcu, arch_name, registers, stale, file, ((lo + hi) \div 2) + 1, hi,
                   FileScripts(mcu, arch_name, registers, stale, file, lo,
                               (lo + hi) \div 2, st))

\* the register list is complete before the first script is parsed
BuildWith(mcu, arch, file, stale, registers) ==
  IF Len(registers) >= 0
  THEN With(IF file = <<>>
            THEN DefaultScripts(mcu, ArchName(arch), registers, stale)
            ELSE FileScripts(mcu, ArchName(arch), registers, stale, file, 1, Len(file),
                             DefaultScripts(mcu, ArchName(arch), registers, stale)),
            LAMBDA st : [scripts |-> st.scripts, failed |-> st.failed \/ st.inscript])
  ELSE [scripts |-> <<>>, failed |-> TRUE]

\* bmscript_load() past the check for a double load: the script list it builds
\* and whether an assert() failed on the way (a script without "end" included)
BuildScripts(mcu, arch, file, stale) ==
  BuildWith(mcu, arch, file, stale, LoadRegisters(mcu, file))

(***************************************************************************)
(* Inputs: the support files, MCU families, architectures, script names    *)
(* and parameter vectors the calls are made with                           *)
(***************************************************************************)
BmscriptNone ==
  <<>>

BmscriptOverride ==
  <<
    <<"#"," ","o","v","e","r","r","u","l","e"," ","t","h","e"," ","m","e","m","o","r","y"," ","r","e","m","a","p","\n">>,
    <<"d","e","f","i","n","e"," ","m","e","m","r","e","m","a","p"," ","[","L","P","C","1","3","x","x","]","\n">>,
    <<" "," ","S","Y","S","C","O","N","_","S","Y","S","M","E","M","R","E","M","A","P"," ","="," ","5","\n">>,
    <<"e","n","d","\n">>
  >>

BmscriptErrors ==
  <<
    <<"d","e","f","i","n","e"," ","g","o","o","d"," ","[","*","]","\n">>,
    <<"I","T","M","_","T","E","R"," ","="," ","1","\n">>,
    <<"e","n","d","\n">>,
    <<"d","e","f","i","n","e"," ","b","a","d"," ","[","*","]","\n">>,
    <<"I","T","M","_","T","P","R"," ","="," ","2","\n">>,
    <<"N","O","S","U","C","H"," ","="," ","3","\n">>,
    <<"e","n","d","\n">>,
    <<"d","e","f","i","n","e"," ","p","r","e","f","i","x"," ","[","*","]","\n">>,
    <<"S","C","B"," ","="," ","4","\n">>,
    <<"e","n","d","\n">>,
    <<"d","e","f","i","n","e"," ","M","e","m","r","e","m","a","p"," ","[","L","P","C","1","3","x","x","]","\n">>,
    <<"I","O","C","O","N","_","P","I","O","0","_","9"," ","="," ","6","\n">>,
    <<"T","R","A","C","E","C","L","K","D","I","V"," ","="," ","7","\n">>,
    <<"e","n","d","\n">>
  >>

BmscriptRegisters ==
  <<
    <<"d","e","f","i","n","e"," ","I","T","M","_","T","E","R"," ","[","S","T","M","3","2","F","4","*","]"," ","="," ","{","b","y","t","e","}","0","x","2","0","0","0","0","1","0","0","\n">>,
    <<"d","e","f","i","n","e"," ","U","S","E","R","R","E","G"," ","[","*","]"," ","="," ","{","s","h","o","r","t","}","0","x","2","0","0","0","0","2","0","0"," ","#"," ","a"," ","v","a","r","i","a","b","l","e","\n">>,
    <<"\n">>,
    <<"d","e","f","i","n","e"," ","s","w","o","_","c","h","a","n","n","e","l","s"," ","[","S","T","M","3","2","F","4","*",","," ","L","P","C","1","3","x","x","]","\n">>,
    <<"$","3"," ","="," ","$","0","\n">>,
    <<"U","S","E","R","R","E","G"," ","|","="," ","$","0","\n">>,
    <<"I","T","M","_","T","E","R"," ","&","="," ","~","$","1","\n">>,
    <<"e","n","d","\n">>,
    <<"d","e","f","i","n","e"," ","s","w","o","_","s","k","i","p"," ","[","*","]","\n">>,
    <<"I","T","M","_","T","E","R"," ","="," ","1","\n">>,
    <<"$","3"," ","="," ","1","\n">>,
    <<"e","n","d","\n">>
  >>

BmscriptInvert ==
  <<
    <<"d","e","f","i","n","e"," ","c","l","e","a","r","_","b","i","t","s"," ","[","*","]","\n">>,
    <<"I","T","M","_","T","E","R"," ","&","="," ","~","$","0","\n">>,
    <<"I","T","M","_","T","E","R"," ","~","="," ","$","1","\n">>,
    <<"I","T","M","_","T","E","R"," ","~","="," ","~","$","1","\n">>,
    <<"e","n","d","\n">>,
    <<"d","e","f","i","n","e"," ","s","e","t","_","i","n","v"," ","[","*","]","\n">>,
    <<"I","T","M","_","T","E","R"," ","="," ","~","$","0","\n">>,
    <<"I","T","M","_","T","E","R"," ","|","="," ","~","$","1","\n">>,
    <<"e","n","d","\n">>
  >>

Files == {BmscriptNone, BmscriptOverride, BmscriptErrors, BmscriptRegisters, BmscriptInvert}

McuLPC1343 == <<"L","P","C","1","3","4","3">>
McuSTM32F407 == <<"S","T","M","3","2","F","4","0","7">>
McuSTM32F103 == <<"S","T","M","3","2","F","1","0","3">>
Mcus == {McuLPC1343, McuSTM32F407, McuSTM32F103}

\* an architecture that is NULL or empty is the empty text
ArchNone == <<>>
ArchM0 == <<"M","0">>
ArchM4 == <<"M","4">>
Archs == {ArchNone, ArchM0, ArchM4}

NameMemremap == <<"m","e","m","r","e","m","a","p">>
NameMEMREMAP == <<"M","E","M","R","E","M","A","P">>
NameSwoGeneric == <<"s","w","o","_","g","e","n","e","r","i","c">>
NameSwoChannels == <<"s","w","o","_","c","h","a","n","n","e","l","s">>
NameBad == <<"b","a","d">>
NameSwoSkip == <<"s","w","o","_","s","k","i","p">>
NameNoSuch == <<"n","o","s","u","c","h">>
Names == {NameMemremap, NameMEMREMAP, NameSwoGeneric, NameSwoChannels, NameBad, NameSwoSkip,
          NameNoSuch}

\* parameter vectors: 16 slots
ParamsAbsent ==
  [i \in 0..15 |-> IF i = 0 THEN U32(0, 2) ELSE IF i = 1 THEN U32(0, 15)
                   ELSE IF i = 2 THEN U32(\h0001, \hC200) ELSE IF i = 3 THEN U32AllOnes
                   ELSE U32Zero]
ParamsPresent ==
  [i \in 0..15 |-> IF i = 0 THEN U32(0, 1) ELSE IF i = 1 THEN U32(\h2000, \h0010)
                   ELSE IF i = 2 THEN U32(\h0001, \hC200) ELSE IF i = 3 THEN U32(\h2000, \h0020)
                   ELSE U32Zero]
ParamVectors == {ParamsAbsent, ParamsPresent}

\* what a read of registers[reg_count] can find in memory the loader never wrote
StaleCells == {[address |-> U32Zero, size |-> 0], [address |-> U32(\h2000, \h0040), size |-> 4]}

\* text that an uninitialised operator buffer can hold
JunkOperStrs == {<<>>, <<"?">>}

\* longest walk of one script the caller makes
MaxRun == 10

(***************************************************************************)
(* Session state                                                           *)
(***************************************************************************)
\* a NULL char pointer; no text equals it
NULLSTR == <<"NULL">>

\* out-parameters that were not written
NoInstr == [oper |-> NUL, address |-> U32Zero, value |-> U32Zero, size |-> 0]
\* a line buffer that was not written
NoLine == <<>>

VARIABLES
  script_root,   \* name: set to detect a double load; next: the script list, head first
  cache,         \* the script most recently found and the index of its current line
  ndebug,        \* the build: TRUE when assert() is compiled out
  halted,        \* the process was ended by a failed assert() or a NULL dereference
  session,       \* the arguments of the last bmscript_load() that built the list, and
                 \* the lines of the support file "bmscript" it read (empty: no file)
  result,        \* the last call and what it returned
  run,           \* a caller that walks one script: the name it asks for, how it
                 \* calls (absent: with NULL after the first call), what the
                 \* calls returned since the cache was last cleared (rets), and
                 \* what they returned in the walk before that, when the caller
                 \* repeats a walk (prev), and the MCU family that was loaded
                 \* before the caller loaded another one or cleared the list
                 \* (before); when a second caller asks for another name in
                 \* turn with the first, that name (other) and what its calls
                 \* returned (prev)
  matched,       \* the last call of mcu_match()
  parsed         \* the last call of parseline()

engine == <<script_root, cache, ndebug, halted, session, result>>
vars == <<script_root, cache, ndebug, halted, session, result, run, matched, parsed>>

NoCache == [name |-> NULLSTR, lines |-> 0, count |-> 0, index |-> 0]
NoSession == [mcu |-> NULLSTR, arch |-> <<>>, file |-> <<>>]
NoResult == [call |-> "none", ret |-> 0, instr |-> NoInstr, line |-> NoLine]

\* number of scripts in the list
ScriptCount == Len(script_root.next)

\* FindScript() that keeps searching after a match: the last script of the name
FindScriptLast(scripts, name) ==
  Max({pos \in 1..(Len(scripts) + 1) :
         \/ pos = Len(scripts) + 1 /\ \A q \in 1..Len(scripts) : ~StrIEq(name, scripts[q].name)
         \/ pos <= Len(scripts) /\ StrIEq(name, scripts[pos].name)})

\* position of the first script whose name matches without regard to case;
\* Len(scripts) + 1 when there is none
FindScript(scripts, name) ==
  Min({pos \in 1..(Len(scripts) + 1) :
         pos = Len(scripts) + 1 \/ StrIEq(name, scripts[pos].name)})

\* bmscript_clearcache() that forgets the lines but keeps the name and the index
bmscript_clearcache_keepindex ==
  /\ ~halted
  /\ cache' = [cache EXCEPT !.lines = 0]
  /\ result' = [call |-> "clearcache", ret |-> 0, instr |-> NoInstr, line |-> NoLine]
  /\ UNCHANGED <<script_root, ndebug, halted, session>>

\* bmscript_clearcache()
bmscript_clearcache ==
  /\ ~halted
  /\ cache' = NoCache
  /\ result' = [call |-> "clearcache", ret |-> 0, instr |-> NoInstr, line |-> NoLine]
  /\ UNCHANGED <<script_root, ndebug, halted, session>>

\* bmscript_clear() without the call of bmscript_clearcache()
bmscript_clear_keepcache ==
  /\ ~halted
  /\ script_root' = [name |-> NULLSTR, next |-> <<>>]
  /\ session' = NoSession
  /\ result' = [call |-> "clear", ret |-> 0, instr |-> NoInstr, line |-> NoLine]
  /\ UNCHANGED <<cache, ndebug, halted>>

\* bmscript_clear() that frees the first script of the list only
bmscript_clear_first ==
  /\ ~halted
  /\ cache' = NoCache
  /\ script_root' = [name |-> NULLSTR,
                     next |-> SubSeq(script_root.next, 2, Len(script_root.next))]
  /\ session' = NoSession
  /\ result' = [call |-> "clear", ret |-> 0, instr |-> NoInstr, line |-> NoLine]
  /\ UNCHANGED <<ndebug, halted>>

\* bmscript_clear()
bmscript_clear ==
  /\ ~halted
  /\ cache' = NoCache
  /\ script_root' = [name |-> NULLSTR, next |-> <<>>]
  /\ session' = NoSession
  /\ result' = [call |-> "clear", ret |-> 0, instr |-> NoInstr, line |-> NoLine]
  /\ UNCHANGED <<ndebug, halted>>

\* BuildScripts for every load the model makes, computed once
BuiltScripts ==
  {<<in, BuildScripts(in[1], in[2], in[3], in[4])>> : in \in Mcus \X Archs \X Files \X StaleCells}

Built(mcu, arch, file, stale) ==
  (CHOOSE e \in BuiltScripts : e[1] = <<mcu, arch, file, stale>>)[2]

\* load_built() that does not free the list: the scripts are appended to the
\* scripts of the load before
load_built_append(mcu, arch, file, built) ==
  /\ cache' = NoCache
  /\ IF built.failed /\ ~ndebug
     THEN /\ halted' = TRUE
          /\ script_root' = [name |-> NULLSTR, next |-> <<>>]
          /\ session' = NoSession
          /\ result' = [call |-> "load", ret |-> 0, instr |-> NoInstr, line |-> NoLine]
     ELSE /\ halted' = FALSE
          /\ script_root' = [name |-> NULLSTR, next |-> script_root.next \o built.scripts]
          /\ session' = [mcu |-> mcu, arch |-> arch, file |-> file]
          /\ result' = [call |-> "load", ret |-> Len(built.scripts), instr |-> NoInstr,
                        line |-> NoLine]
  /\ UNCHANGED ndebug

\* bmscript_load() past the check for a double load: bmscript_clear(), then
\* the list is built; a failed assert() ends the process
load_built(mcu, arch, file, built) ==
  /\ cache' = NoCache
  /\ IF built.failed /\ ~ndebug
     THEN /\ halted' = TRUE
          /\ script_root' = [name |-> NULLSTR, next |-> <<>>]
          /\ session' = NoSession
          /\ result' = [call |-> "load", ret |-> 0, instr |-> NoInstr, line |-> NoLine]
     ELSE /\ halted' = FALSE
          /\ script_root' = [name |-> NULLSTR, next |-> built.scripts]
          /\ session' = [mcu |-> mcu, arch |-> arch, file |-> file]
          /\ result' = [call |-> "load", ret |-> Len(built.scripts), instr |-> NoInstr,
                        line |-> NoLine]
  /\ UNCHANGED ndebug

\* bmscript_load(mcu, arch), with file the lines it reads from the support file
bmscript_load(mcu, arch, file) ==
  /\ ~halted
  /\ IF script_root.name # NULLSTR /\ StrEq(script_root.name, mcu)
     THEN /\ result' = [call |-> "load", ret |-> ScriptCount, instr |-> NoInstr, line |-> NoLine]
          /\ UNCHANGED <<script_root, cache, ndebug, halted, session>>
     ELSE \E stale \in StaleCells : load_built(mcu, arch, file, Built(mcu, arch, file, stale))

\* line_next() without "cache.index += 1"
line_next_noadvance(cached) ==
  IF cached.index = cached.count
  THEN [fault |-> FALSE, cache |-> cached, ret |-> 0, instr |-> NoInstr]
  ELSE [fault |-> FALSE, cache |-> cached, ret |-> 1,
        instr |-> script_root.next[cached.lines].lines[cached.index + 1]]

\* line_next() that rewinds the script when it reports its end
line_next_rewind(cached) ==
  IF cached.index = cached.count
  THEN [fault |-> FALSE, cache |-> [cached EXCEPT !.index = 0], ret |-> 0, instr |-> NoInstr]
  ELSE [fault |-> FALSE, cache |-> [cached EXCEPT !.index = @ + 1], ret |-> 1,
        instr |-> script_root.next[cached.lines].lines[cached.index + 1]]

\* the end of bmscript_line(), with the cache as the lookup left it: the
\* instruction at the index, and the index advanced, or 0 at the end of the script
line_next(cached) ==
  IF cached.index = cached.count
  THEN [fault |-> FALSE, cache |-> cached, ret |-> 0, instr |-> NoInstr]
  ELSE [fault |-> FALSE, cache |-> [cached EXCEPT !.index = @ + 1], ret |-> 1,
        instr |-> script_root.next[cached.lines].lines[cached.index + 1]]

\* line_find() that clears the cache when there is no script of the name
line_find_reset(pos) ==
  IF pos > ScriptCount
  THEN [fault |-> FALSE, cache |-> NoCache, ret |-> 0, instr |-> NoInstr]
  ELSE line_next([name |-> script_root.next[pos].name,
                  lines |-> IF Len(script_root.next[pos].lines) > 0 THEN pos ELSE 0,
                  count |-> Len(script_root.next[pos].lines),
                  index |-> 0])

\* find a script with the given name: the cache is set to the script at pos, or
\* the call returns 0 when there is none
line_find(pos) ==
  IF pos > ScriptCount
  THEN [fault |-> FALSE, cache |-> cache, ret |-> 0, instr |-> NoInstr]
  ELSE line_next([name |-> script_root.next[pos].name,
                  lines |-> IF Len(script_root.next[pos].lines) > 0 THEN pos ELSE 0,
                  count |-> Len(script_root.next[pos].lines),
                  index |-> 0])

\* line_step() that looks the name up only when the cache is empty
line_step_cached(arg) ==
  IF arg = NULLSTR /\ cache.name = NULLSTR
  THEN [fault |-> TRUE, cache |-> cache, ret |-> 0, instr |-> NoInstr]
  ELSE IF cache.name = NULLSTR
  THEN line_find(FindScript(script_root.next, arg))
  ELSE line_next(cache)

\* bmscript_line(name, ...): the cache after the call, the instruction
\* returned (ret = 1) or NoInstr (ret = 0), and
\*   fault: the name is NULL and there is no cached name
line_step(arg) ==
  IF arg = NULLSTR /\ cache.name = NULLSTR
  THEN [fault |-> TRUE, cache |-> cache, ret |-> 0, instr |-> NoInstr]
  ELSE IF cache.name = NULLSTR
  THEN line_find(FindScript(script_root.next, arg))
  ELSE IF arg # NULLSTR /\ ~StrEq(arg, cache.name)
  THEN line_find(FindScript(script_root.next, arg))
  ELSE line_next(cache)

\* a call with a NULL name and an empty cache ends the process: always when
\* assert(name != NULL) is compiled in; otherwise the NULL pointer is passed to
\* stricmp() for the first script of the list, which crashes or compares unequal
FaultCanHalt == ~ndebug \/ ScriptCount > 0
FaultCanReturn == ndebug

line_return(step) ==
  /\ cache' = step.cache
  /\ IF step.fault
     THEN \/ FaultCanHalt /\ halted' = TRUE
          \/ FaultCanReturn /\ halted' = FALSE
     ELSE halted' = FALSE
  /\ result' = [call |-> "line", ret |-> step.ret, instr |-> step.instr, line |-> NoLine]
  /\ UNCHANGED <<script_root, ndebug, session>>

\* bmscript_line(name, &oper, &address, &value, &size)
bmscript_line(arg) == ~halted /\ line_return(line_step(arg))

\* the operator text; junk is what the buffer holds when no case of the switch
\* has written it
OperStr(oper, junk) ==
  IF oper = "=" THEN <<"=">>
  ELSE IF oper = "|" THEN <<"|","=">>
  ELSE IF oper = "&" THEN <<"&","=">>
  ELSE IF oper = "~" THEN <<"&","="," ","~">>
  ELSE junk

\* the address or value is a reference to a parameter
IsParam(v) == U32ClearLow4(v) = SCRIPT_MAGIC

\* ReplaceParam() that takes the value of the parameter after the one named
ReplaceParamNext(v, params) == IF IsParam(v) THEN params[(U32Low4(v) + 1) % 16] ELSE v

\* replace parameters
ReplaceParam(v, params) == IF IsParam(v) THEN params[U32Low4(v)] ELSE v

\* the sprintf() of bmscript_line_fmt(); no text is written when the size is
\* none of 1, 2 and 4
FormatLine(size, address, operstr, value) ==
  IF size = 1
  THEN <<"s","e","t"," ","{","c","h","a","r","}","0","x">> \o FmtHex(address) \o <<" ">>
       \o operstr \o <<" ","0","x">> \o FmtHex(U32Byte(value)) \o <<"\n">>
  ELSE IF size = 2
  THEN <<"s","e","t"," ","{","s","h","o","r","t","}","0","x">> \o FmtHex(address) \o <<" ">>
       \o operstr \o <<" ","0","x">> \o FmtHex(U32Short(value)) \o <<"\n">>
  ELSE IF size = 4
  THEN <<"s","e","t"," ","{","i","n","t","}","0","x">> \o FmtHex(address) \o <<" ">>
       \o operstr \o <<" ","0","x">> \o FmtHex(value) \o <<"\n">>
  ELSE NoLine

\* the address is a parameter that is not present
ParamAbsent(instr, params) ==
  IsParam(instr.address) /\ ReplaceParam(instr.address, params) = U32AllOnes

\* FormatInstr() without the test for a parameter that is not present
FormatInstrNoSkip(instr, params, junk) ==
  [ret |-> 1,
   line |-> FormatLine(instr.size, ReplaceParam(instr.address, params),
                       OperStr(instr.oper, junk), ReplaceParam(instr.value, params))]

\* what bmscript_line_fmt() returns for an instruction, and the text it prints:
\* ret = 0 and no text when the address is a parameter that is not present
FormatInstr(instr, params, junk) ==
  IF ParamAbsent(instr, params)
  THEN [ret |-> 0, line |-> NoLine]
  ELSE [ret |-> 1,
        line |-> FormatLine(instr.size, ReplaceParam(instr.address, params),
                            OperStr(instr.oper, junk), ReplaceParam(instr.value, params))]

\* an assert(0) of bmscript_line_fmt() is reached: in the switch on the
\* operator, or in the switch on the size when the call has not returned before
FormatFails(instr, params) ==
  \/ instr.oper \notin {"=", "|", "&", "~"}
  \/ instr.size \notin {1, 2, 4} /\ ~ParamAbsent(instr, params)

\* what the operator buffer can hold after the switch
OperJunk(instr) == IF instr.oper \in {"=", "|", "&", "~"} THEN {<<>>} ELSE JunkOperStrs

\* bmscript_line_fmt() after its call of bmscript_line()
line_fmt_return(step, params) ==
  /\ cache' = step.cache
  /\ IF step.fault
     THEN /\ \/ FaultCanHalt /\ halted' = TRUE
             \/ FaultCanReturn /\ halted' = FALSE
          /\ result' = [call |-> "line_fmt", ret |-> 0, instr |-> NoInstr, line |-> NoLine]
     ELSE IF step.ret = 0
     THEN /\ halted' = FALSE
          /\ result' = [call |-> "line_fmt", ret |-> 0, instr |-> NoInstr, line |-> NoLine]
     ELSE IF FormatFails(step.instr, params) /\ ~ndebug
     THEN /\ halted' = TRUE
          /\ result' = [call |-> "line_fmt", ret |-> 0, instr |-> NoInstr, line |-> NoLine]
     ELSE /\ halted' = FALSE
          /\ \E junk \in OperJunk(step.instr) :
                result' = [call |-> "line_fmt", instr |-> NoInstr,
                           ret |-> FormatInstr(step.instr, params, junk).ret,
                           line |-> FormatInstr(step.instr, params, junk).line]
  /\ UNCHANGED <<script_root, ndebug, session>>

\* bmscript_line_fmt(name, line, params)
bmscript_line_fmt(arg, params) == ~halted /\ line_fmt_return(line_step(arg), params)

(***************************************************************************)
(* Specification: any caller, calls in any order                           *)
(***************************************************************************)
NoRun == [name |-> NULLSTR, call |-> "none", absent |-> FALSE, params |-> ParamsAbsent,
          rets |-> <<>>, prev |-> <<>>, before |-> NULLSTR, other |-> NULLSTR]
NoMatch == [mcufamily |-> <<>>, list |-> <<>>, ret |-> FALSE]
NoParse == [line |-> <<>>, mcu |-> NULLSTR, file |-> <<>>, ret |-> NoInstr, failed |-> FALSE]

InitEngine ==
  /\ script_root = [name |-> NULLSTR, next |-> <<>>]
  /\ cache = NoCache
  /\ ndebug \in BOOLEAN
  /\ halted = FALSE
  /\ session = NoSession
  /\ result = NoResult

Init ==
  /\ InitEngine
  /\ run = NoRun
  /\ matched = NoMatch
  /\ parsed = NoParse

Load == \E mcu \in Mcus, arch \in Archs, file \in Files : bmscript_load(mcu, arch, file)
Clear == bmscript_clear
ClearCache == bmscript_clearcache
Line == \E arg \in Names \cup {NULLSTR} : bmscript_line(arg)
LineFmt == \E arg \in Names \cup {NULLSTR}, params \in ParamVectors : bmscript_line_fmt(arg, params)

Next ==
  \/ Load /\ UNCHANGED <<run, matched, parsed>>
  \/ Clear /\ UNCHANGED <<run, matched, parsed>>
  \/ ClearCache /\ UNCHANGED <<run, matched, parsed>>
  \/ Line /\ UNCHANGED <<run, matched, parsed>>
  \/ LineFmt /\ UNCHANGED <<run, matched, parsed>>

Spec == Init /\ [][Next]_vars

(***************************************************************************)
(* Specification: a caller that walks one script at a time, as bmtrace     *)
(* does: it loads the scripts or clears the cache, then calls              *)
(* bmscript_line() or bmscript_line_fmt() with one name (or NULL after the *)
(* first call) and the same parameters until it stops                      *)
(***************************************************************************)
\* the names the next call of the walk can pass: the first call names the
\* script, the calls after it all repeat the name or all pass NULL
RunArgs ==
  IF run.name = NULLSTR THEN Names
  ELSE IF run.rets = <<>> THEN {run.name}
  ELSE IF run.absent THEN {NULLSTR} ELSE {run.name}

\* how the walk passes the name after the first call
RunStyles == IF run.call = "none" THEN BOOLEAN ELSE {run.absent}

\* the parameters the next call of the walk can pass
RunParams == IF run.call = "none" THEN ParamVectors ELSE {run.params}

\* the caller notes what the call returned; a call that ended the process
\* returned nothing
RunRecord(arg, call, absent, params) ==
  run' = IF halted' THEN run
         ELSE [name |-> IF run.name = NULLSTR THEN arg ELSE run.name,
               call |-> call, absent |-> absent, params |-> params, prev |-> run.prev,
               before |-> run.before, other |-> run.other,
               rets |-> Append(run.rets, [ret |-> result'.ret, instr |-> result'.instr,
                                          line |-> result'.line])]

RunLoad == run = NoRun /\ Load /\ UNCHANGED run
RunClear == Clear /\ run' = NoRun
RunClearCache == ClearCache /\ run' = NoRun
RunLine ==
  /\ Len(run.rets) < MaxRun
  /\ run.call \in {"none", "line"}
  /\ \E arg \in RunArgs, absent \in RunStyles :
        bmscript_line(arg) /\ RunRecord(arg, "line", absent, run.params)
RunLineFmt ==
  /\ Len(run.rets) < MaxRun
  /\ run.call \in {"none", "line_fmt"}
  /\ \E arg \in RunArgs, absent \in RunStyles, params \in RunParams :
        bmscript_line_fmt(arg, params) /\ RunRecord(arg, "line_fmt", absent, params)

NextRun ==
  \/ RunLoad /\ UNCHANGED <<matched, parsed>>
  \/ RunClear /\ UNCHANGED <<matched, parsed>>
  \/ RunClearCache /\ UNCHANGED <<matched, parsed>>
  \/ RunLine /\ UNCHANGED <<matched, parsed>>
  \/ RunLineFmt /\ UNCHANGED <<matched, parsed>>

SpecRun == Init /\ [][NextRun]_vars

(***************************************************************************)
(* Specification: a caller that walks a script to its end with             *)
(* bmscript_line_fmt(), clears the cache and walks the same script again   *)
(* with the same parameters                                                *)
(***************************************************************************)
\* the walk has reached the end of its script
RunAtEnd ==
  /\ run.rets # <<>>
  /\ run.rets[Len(run.rets)].ret = 0
  /\ cache.name # NULLSTR
  /\ cache.index = cache.count

\* bmscript_clearcache() after the first walk: the caller keeps what the walk
\* returned and starts over
RepeatClearCache ==
  /\ run.prev = <<>>
  /\ RunAtEnd
  /\ ClearCache
  /\ run' = [run EXCEPT !.prev = run.rets, !.rets = <<>>]

NextRepeat ==
  \/ RunLoad /\ UNCHANGED <<matched, parsed>>
  \/ RunLineFmt /\ UNCHANGED <<matched, parsed>>
  \/ RepeatClearCache /\ UNCHANGED <<matched, parsed>>

SpecRepeat == Init /\ [][NextRepeat]_vars

(***************************************************************************)
(* Specification: a caller that loads the scripts of one MCU family, walks *)
(* a script with bmscript_line(), and then loads the scripts of another    *)
(* MCU family                                                              *)
(***************************************************************************)
\* bmscript_load() for an MCU family other than the one that is loaded: the
\* caller keeps the family that was loaded and what the last call of its walk
\* returned
ReloadOther ==
  /\ run.before = NULLSTR
  /\ session.mcu # NULLSTR
  /\ \E mcu \in Mcus \ {session.mcu}, arch \in Archs, file \in Files :
        bmscript_load(mcu, arch, file)
  /\ run' = [NoRun EXCEPT !.before = session.mcu,
                          !.prev = IF run.rets = <<>> THEN <<>>
                                   ELSE <<run.rets[Len(run.rets)]>>]

\* the walk of a script of the first MCU family
WalkBefore == run.before = NULLSTR /\ RunLine

NextReload ==
  \/ RunLoad /\ UNCHANGED <<matched, parsed>>
  \/ WalkBefore /\ UNCHANGED <<matched, parsed>>
  \/ ReloadOther /\ UNCHANGED <<matched, parsed>>

SpecReload == Init /\ [][NextReload]_vars

(***************************************************************************)
(* Specification: a caller that loads the scripts, walks a script with     *)
(* bmscript_line(), calls bmscript_clear() and walks again                 *)
(***************************************************************************)
\* bmscript_clear() when scripts are loaded: the caller keeps the family that
\* was loaded and what the last call of its walk returned
Teardown ==
  /\ run.before = NULLSTR
  /\ session.mcu # NULLSTR
  /\ Clear
  /\ run' = [NoRun EXCEPT !.before = session.mcu,
                          !.prev = IF run.rets = <<>> THEN <<>>
                                   ELSE <<run.rets[Len(run.rets)]>>]

NextTeardown ==
  \/ RunLoad /\ UNCHANGED <<matched, parsed>>
  \/ RunLine /\ UNCHANGED <<matched, parsed>>
  \/ Teardown /\ UNCHANGED <<matched, parsed>>

SpecTeardown == Init /\ [][NextTeardown]_vars

(***************************************************************************)
(* Specification: two callers that call bmscript_line() in turn, the first *)
(* for one name (or with NULL after its first call), the second for        *)
(* another name                                                            *)
(***************************************************************************)
\* the first caller calls next
WalkTurn == Len(run.prev) = Len(run.rets) /\ RunLine

\* the names the second caller can pass
OtherArgs == IF run.other = NULLSTR THEN Names \ {run.name} ELSE {run.other}

\* a call of bmscript_line() by the second caller, after a call of the first
OtherLine ==
  /\ Len(run.prev) < Len(run.rets)
  /\ \E arg \in OtherArgs :
        /\ bmscript_line(arg)
        /\ run' = IF halted' THEN run
                  ELSE [run EXCEPT !.other = arg,
                                   !.prev = Append(@, [ret |-> result'.ret,
                                                       instr |-> result'.instr,
                                                       line |-> result'.line])]

NextTwo ==
  \/ RunLoad /\ UNCHANGED <<matched, parsed>>
  \/ WalkTurn /\ UNCHANGED <<matched, parsed>>
  \/ OtherLine /\ UNCHANGED <<matched, parsed>>

SpecTwo == Init /\ [][NextTwo]_vars

(***************************************************************************)
(* Specification: calls of mcu_match()                                     *)
(***************************************************************************)
\* MCU family names: not empty, no leading or trailing white space
Families ==
  { <<"L","P","C","1","3","4","3">>,
    <<"l","p","c","1","3","4","3">>,
    <<"L","P","C","1","3","4","3"," ","M","3">>,
    <<"L","P","C","1","3","4","3"," ","m","3">>,
    <<"S","T","M","3","2","F","4","0","7">>,
    <<"S","T","M","3","2","F","4","0","7"," ","M","3">>,
    <<"S","T","M","3","2","F","4","0","7"," ","M","4">>,
    <<"L","P","C","1","3","x","x">>,
    <<"L","P","C","1","3","X","X">>,
    <<"l","p","c","1","3","x","3">>,
    <<"S","T","M","3","2","F","1">>,
    <<"S","T","M","3","2","F","1","0","3">>,
    <<"s","t","m","3","2","f","1","0">> }

\* MCU-lists
Lists ==
  { <<"L","P","C","1","3","x","x">>,
    <<"L","P","C","1","3","4","3","*">>,
    <<"L","P","C","1","3","*">>,
    <<"*">>,
    <<"S","T","M","3","2","F","4","*",","," ","L","P","C","1","3","x","x">>,
    <<"L","P","C","8","x","x",","," ","L","P","C","1","1","x","x">>,
    <<" ","L","P","C","1","3","4","3"," ",","," ","S","T","M","3","2","F","1","*">>,
    <<"L","P","C","1","3","4","3"," ","m","3">>,
    <<"S","T","M","3","2","F","4","0","7">>,
    <<"l","p","c","1","3","x","x">>,
    <<"L","P","C","1","3","X","X">>,
    <<"L","P","C","1","3","4","3">>,
    <<"l","p","c","1","3","X","3">>,
    <<"S","T","M","3","2","F","1","*">>,
    <<"s","t","m","3","2","f","1","*">>,
    <<"L","P","C","1","3","x","x","*">>,
    <<"S","T","M","3","2","x","1","*">> }

\* mcu_match(mcufamily, list) is called
MatchCall(mcufamily, list) ==
  matched' = [mcufamily |-> mcufamily, list |-> list, ret |-> mcu_match(mcufamily, list)]

NextMatch ==
  /\ \E mcufamily \in Families, list \in Lists : MatchCall(mcufamily, list)
  /\ UNCHANGED <<script_root, cache, ndebug, halted, session, result, run, parsed>>

SpecMatch == Init /\ [][NextMatch]_vars

(***************************************************************************)
(* Specification: calls of parseline() with the register list of a load    *)
(***************************************************************************)
\* script lines
Lines ==
  { <<"S","C","B","_","D","H","C","S","R"," ","="," ","4","\n">>,
    <<"S","C","B"," ","="," ","4","\n">>,
    <<"s","c","b","_","d","h","c","s","r"," ","="," ","4","\n">>,
    <<"S","C","B","_","D","H","C","S","R","X"," ","="," ","4","\n">>,
    <<"="," ","4","\n">>,
    <<"N","O","S","U","C","H"," ","="," ","3","\n">>,
    <<"s","e","t"," ","S","Y","S","C","O","N","_","S","Y","S","M","E","M","R","E","M","A","P"," ","="," ","2","\n">>,
    <<"S","Y","S","C","O","N"," ","="," ","2","\n">>,
    <<"I","T","M","_","T","E","R"," ","|","="," ","1","\n">>,
    <<"I","T","M","_","T","E","R"," ","&","="," ","~","$","1","\n">>,
    <<"I","T","M","_"," ","="," ","1","\n">>,
    <<"U","S","E","R","R","E","G"," ","="," ","0","x","1","0","\n">>,
    <<"U","S","E","R"," ","="," ","0","x","1","0","\n">>,
    <<"0","x","4","0","0","4","8","0","0","0"," ","="," ","2","\n">>,
    <<"$","0"," ","="," ","1","\n">>,
    <<"T","P","I","U","_","C","S","P","S","R"," ","="," ","$","1","\n">>,
    <<"T","P","I","U"," ","="," ","0","1","0","\n">>,
    <<"D","B","G","M","C","U","_","C","R"," ","|","="," ","0","x","2","0","\n">>,
    <<"D","B","G","M","C","U"," ","="," ","0","x","2","0","\n">>,
    <<"R","C","C","_","A","H","B","1","E","N","R"," ","|","="," ","1","\n">>,
    <<"M","4","M","E","M","M","A","P"," ","="," ","0","\n">>,
    <<"G","P","I","O","B","_","M","O","D","E","R"," ","~","="," ","0","x","0","0","c","0","\n">>,
    <<"G","P","I","O","B","_","M","O","D","E","R"," ","&","="," ","~","0","x","0","0","c","0","\n">>,
    <<"G","P","I","O","B","_","M","O","D","E","R"," ","~","="," ","~","0","x","0","0","c","0","\n">>,
    <<"U","S","E","R","R","E","G"," ","~","="," ","0","x","1","0","\n">>,
    <<"$","a"," ","="," ","1","\n">>,
    <<"I","T","M","_","T","E","R"," ","="," ","$","z","\n">>,
    <<"$",":"," ","="," ","$","?","\n">>,
    <<"$","3"," ","="," ","$","2","\n">>,
    <<"I","T","M","_","T","E","R"," ","="," ","0","x","f","f","f","f","f","f","f","1","\n">>,
    <<"I","T","M","_","T","E","R"," ","="," ","~","0","x","e","\n">>,
    <<"0","x","f","f","f","f","f","f","f","0"," ","="," ","1","\n">>,
    <<"0","x","4","0","0","4","8","0","0","0"," ","="," ","0","x","f","f","f","f","f","f","e","f","\n">> }

\* the files whose register definitions the calls are made with
ParseFiles == {BmscriptNone, BmscriptRegisters}

\* the register lists of the loads, computed once
LoadedRegisters ==
  {<<in, LoadRegisters(in[1], in[2])>> : in \in Mcus \X ParseFiles}

Loaded(mcu, file) == (CHOOSE e \in LoadedRegisters : e[1] = <<mcu, file>>)[2]

parse_return(line, mcu, file, pl) ==
  parsed' = [line |-> line, mcu |-> mcu, file |-> file, ret |-> Instruction(pl),
             failed |-> pl.failed]

\* parseline(line, registers, reg_count, &oper, &address, &value, &size) is
\* called with the register list that bmscript_load(mcu, ...) builds
ParseCall(line, mcu, file) ==
  \E stale \in StaleCells :
    parse_return(line, mcu, file, parseline(line, 0, Loaded(mcu, file), stale))

NextParse ==
  /\ \E line \in Lines, mcu \in Mcus, file \in ParseFiles : ParseCall(line, mcu, file)
  /\ UNCHANGED <<script_root, cache, ndebug, halted, session, result, run, matched>>

SpecParse == Init /\ [][NextParse]_vars

(***************************************************************************)
(* Properties of a walk through one script (SpecRun)                       *)
(***************************************************************************)
\* position of the first script whose name is the name but for letter case;
\* ScriptCount + 1 when there is none
FirstNamed(name) ==
  Min({pos \in 1..(ScriptCount + 1) :
         pos = ScriptCount + 1 \/ MapUpper(script_root.next[pos].name) = MapUpper(name)})

\* the walk asks for a name that some script has but for letter case
RunFinds == run.name # NULLSTR /\ FirstNamed(run.name) <= ScriptCount

\* the lines of the script the walk's name selects
RunLines == script_root.next[FirstNamed(run.name)].lines

\* the walk passes the name exactly as the selected script stores it
RunExact == RunFinds /\ script_root.next[FirstNamed(run.name)].name = run.name

\* the calls of the walk returned the instructions in lines, one per call and in
\* order, and 0 from the call after the last instruction on
WalkedInOrder(lines) ==
  \A k \in 1..Len(run.rets) :
     IF k <= Len(lines)
     THEN run.rets[k].ret = 1 /\ run.rets[k].instr = lines[k]
     ELSE run.rets[k].ret = 0 /\ run.rets[k].instr = NoInstr

\* C1: after a load, from a cleared cache, successive calls of bmscript_line()
\* with the stored name of the script that the name selects (or with NULL after
\* the first call) return the instructions of that script one per call, each
\* once, in the order of its lines, and the call after the last returns 0.
C1_InOrderThenNone ==
  (run.call = "line" /\ RunExact) => WalkedInOrder(RunLines)

\* a walk by the stored name has returned every instruction of a script of
\* several lines and then 0
C1_Witness ==
  /\ run.call = "line" /\ run.absent /\ RunExact
  /\ Len(RunLines) >= 3
  /\ Len(run.rets) = Len(RunLines) + 1
  /\ run.rets[Len(RunLines)].ret = 1
  /\ run.rets[Len(RunLines) + 1].ret = 0

\* C2: the lookup of bmscript_line() is case-insensitive: calls that repeat a
\* name that equals a stored name up to letter case advance through the script
\* and return 0 after as many instructions as the script has.
C2_CaseInsensitiveTerminates ==
  (run.call = "line" /\ ~run.absent /\ RunFinds) => WalkedInOrder(RunLines)

\* the built-in memremap script of the LPC13xx, and the instruction of the
\* script that overrules it in the file BmscriptOverride
MemremapBuiltin == [oper |-> "=", address |-> U32(\h4004, \h8000), value |-> U32(0, 2), size |-> 4]
MemremapOverride == [oper |-> "=", address |-> U32(\h4004, \h8000), value |-> U32(0, 5), size |-> 4]

\* C3: of two scripts with the same name in the list, a walk from a cleared
\* cache yields the instructions of the one added later and none of the
\* earlier one; a script of the file shadows the built-in script of that name
\* (for LPC1343, memremap is the one instruction {=, 0x40048000, 2, 4} without
\* the file and {=, 0x40048000, 5, 4} with the file that overrules it), and the
\* earlier script stays in the list.
C3_LaterScriptShadows ==
  /\ (/\ run.call = "line" /\ RunFinds
      /\ \E q \in (FirstNamed(run.name) + 1)..ScriptCount :
            MapUpper(script_root.next[q].name) = MapUpper(run.name))
     => /\ \A k \in 1..Len(run.rets) :
             run.rets[k].ret = 1 => \E j \in 1..Len(RunLines) : run.rets[k].instr = RunLines[j]
        /\ RunExact => WalkedInOrder(RunLines)
  /\ (run.call = "line" /\ run.name = NameMemremap /\ session.mcu = McuLPC1343)
     => /\ session.file = BmscriptNone => WalkedInOrder(<<MemremapBuiltin>>)
        /\ session.file = BmscriptOverride
           => /\ WalkedInOrder(<<MemremapOverride>>)
              /\ \E q \in 2..ScriptCount :
                    /\ script_root.next[q].name = NameMemremap
                    /\ script_root.next[q].lines = <<MemremapBuiltin>>

\* memremap of the LPC1343 was walked to its end with the file that overrules it
C3_Witness ==
  /\ run.call = "line" /\ run.name = NameMemremap
  /\ session.mcu = McuLPC1343 /\ session.file = BmscriptOverride
  /\ Len(run.rets) = 2
  /\ run.rets[1].instr = MemremapOverride
  /\ run.rets[2].ret = 0

\* what bmscript_line_fmt() returned for the k-th call is what it returns for
\* the instruction, or 0 past the end of the script
Formatted(k, lines) ==
  IF k <= Len(lines)
  THEN \E junk \in OperJunk(lines[k]) :
         /\ run.rets[k].ret = FormatInstr(lines[k], run.params, junk).ret
         /\ run.rets[k].line = FormatInstr(lines[k], run.params, junk).line
  ELSE run.rets[k].ret = 0

\* the address of the instruction is parameter $i and params[i] is 0xFFFFFFFF
AddressNotPresent(instr, params) ==
  /\ instr.address[1] = SCRIPT_MAGIC[1]
  /\ instr.address[2] - (instr.address[2] % 16) = SCRIPT_MAGIC[2]
  /\ params[instr.address[2] % 16] = U32AllOnes

\* C7: when the address of the current instruction is a parameter whose value
\* is the marker 0xFFFFFFFF, bmscript_line_fmt() returns 0 and writes no
\* command, and the index has advanced: the next call returns the following
\* instruction of the script (or 0 when the skipped one was the last).
C7_AbsentParameterSkips ==
  (run.call = "line_fmt" /\ RunExact)
  => \A k \in 1..Len(run.rets) :
       (k <= Len(RunLines) /\ AddressNotPresent(RunLines[k], run.params))
       => /\ run.rets[k].ret = 0
          /\ run.rets[k].line = NoLine
          /\ k + 1 <= Len(run.rets) => Formatted(k + 1, RunLines)

\* an instruction was skipped and the call after it printed the following one
C7_Witness ==
  /\ run.call = "line_fmt" /\ RunExact
  /\ \E k \in 1..(Len(run.rets) - 1) :
        /\ k + 1 <= Len(RunLines)
        /\ AddressNotPresent(RunLines[k], run.params)
        /\ run.rets[k].ret = 0
        /\ run.rets[k + 1].ret = 1
        /\ run.rets[k + 1].line # NoLine

(***************************************************************************)
(* Specification: calls of parseline() for the lines of the hard-coded     *)
(* scripts that a load selects, with the hard-coded registers of that load *)
(***************************************************************************)
\* MCU families: one for every entry of the MCU lists of the hard-coded
\* scripts, and one that only "*" matches
BuiltinMcus ==
  {
    <<"L","P","C","8","1","2">>,
    <<"L","P","C","1","1","1","4">>,
    <<"L","P","C","1","1","U","1","4">>,
    <<"L","P","C","1","2","2","7">>,
    <<"L","P","C","1","3","4","3">>,
    <<"L","P","C","1","5","4","9">>,
    <<"L","P","C","1","7","6","8">>,
    <<"L","P","C","2","1","4","8">>,
    <<"L","P","C","2","2","9","4">>,
    <<"L","P","C","2","3","6","8">>,
    <<"L","P","C","2","4","7","8">>,
    <<"L","P","C","4","3","7","0","F","E","T">>,
    <<"S","T","M","3","2","F","0","3">>,
    <<"S","T","M","3","2","F","0","5">>,
    <<"S","T","M","3","2","F","0","7">>,
    <<"S","T","M","3","2","F","0","9">>,
    <<"S","T","M","3","2","F","1","0","3">>,
    <<"S","T","M","3","2","F","2","0","5">>,
    <<"S","T","M","3","2","F","3","0","3">>,
    <<"S","T","M","3","2","F","4","0","7">>,
    <<"S","T","M","3","2","F","7","4","6">>,
    <<"n","R","F","5","2","8","3","2">>
  }

\* the hard-coded scripts that the loads select, each with the MCU family, the
\* architecture and the register list of its load, computed once
BuiltinLoads ==
  {[mcu |-> in[1], arch |-> in[2], def |-> script_defaults[in[3]],
    registers |-> DefaultRegisters(in[1])] :
     in \in {in \in BuiltinMcus \X Archs \X (1..Len(script_defaults)) :
               ScriptApplies(in[1], ArchName(in[2]), script_defaults[in[3]].mcu_list)}}

\* the starts of the lines of a hard-coded script
ScriptHeads(script) ==
  {head \in {skipleading(script, k) :
               k \in {0} \cup {k \in 1..Len(script) : script[k] = "\n"}} :
     CharAt(script, head) # NUL}

\* parseline() for every line of the hard-coded scripts of the loads, with the
\* register list of the load, computed once
BuiltinParsed ==
  UNION {{[line |-> Slice(load.def.script, in[1], Len(load.def.script)), mcu |-> load.mcu,
           pl |-> parseline(load.def.script, in[1], load.registers, in[2])] :
            in \in ScriptHeads(load.def.script) \X StaleCells} :
         load \in BuiltinLoads}

\* parseline() is called for a line of a hard-coded script of a load
BuiltinCall(call) == parse_return(call.line, call.mcu, BmscriptNone, call.pl)

NextBuiltin ==
  /\ \E call \in BuiltinParsed : BuiltinCall(call)
  /\ UNCHANGED <<script_root, cache, ndebug, halted, session, result, run, matched>>

SpecBuiltin == Init /\ [][NextBuiltin]_vars

(***************************************************************************)
(* Properties of the calls in any order (Spec)                             *)
(***************************************************************************)
\* C4: a call of bmscript_load() for the MCU family that is loaded (with the
\* same architecture and the same file) is a no-op: the list is not torn down
\* and the cache keeps its script and index, so that a walk that is part-way
\* through a script continues from the same instruction.
C4_SameMcuLoadIsNoOp ==
  [][\A mcu \in Mcus, arch \in Archs, file \in Files :
       (session = [mcu |-> mcu, arch |-> arch, file |-> file] /\ bmscript_load(mcu, arch, file))
       => UNCHANGED <<script_root, cache, session>>]_vars

\* C5: bmscript_load(m) followed by bmscript_load(m), with the same
\* architecture and an unchanged file, leaves the list with the same scripts in
\* the same order and returns the same count both times; the count is the
\* number of scripts in the list, shadowed ones included.
C5_ReloadSameStore ==
  [][\A mcu \in Mcus, arch \in Archs, file \in Files :
       (/\ result.call = "load"
        /\ session = [mcu |-> mcu, arch |-> arch, file |-> file]
        /\ bmscript_load(mcu, arch, file))
       => /\ script_root'.next = script_root.next
          /\ result'.ret = result.ret
          /\ result'.ret = Len(script_root'.next)]_vars

\* the names of the scripts of the file BmscriptErrors
ErrorsNames == {<<"g","o","o","d">>, NameBad, <<"p","r","e","f","i","x">>, <<"M","e","m","r","e","m","a","p">>}

\* C6: a script of the file in which a line does not compile (an unknown
\* register) is not added to the list; the loader continues, and every other
\* script of the file and every built-in script is loaded as if the failing
\* script were absent.
C6_FailingScriptDiscarded ==
  /\ ~(halted /\ result.call = "load")
  /\ session.file = BmscriptErrors
     => /\ \A i \in 1..ScriptCount : script_root.next[i].name # NameBad
        /\ \E i \in 1..ScriptCount :
              /\ script_root.next[i].name = <<"g","o","o","d">>
              /\ script_root.next[i].lines =
                   <<[oper |-> "=", address |-> U32(\hE000, \h0E00), value |-> U32(0, 1),
                      size |-> 4]>>
        /\ \E stale \in StaleCells :
              SelectSeq(script_root.next, LAMBDA script : script.name \notin ErrorsNames)
                = Built(session.mcu, session.arch, BmscriptNone, stale).scripts

(***************************************************************************)
(* Properties of parseline() (SpecParse)                                   *)
(***************************************************************************)
\* the line of the last call starts, after an optional "set", with a register
\* identifier (neither a number nor a parameter)
ParsedStart ==
  With(skipleading(parsed.line, 0), LAMBDA p0 :
    IF StrNEq(parsed.line, p0, <<"s","e","t">>, 3) /\ Ord(CharAt(parsed.line, p0 + 3)) <= 32
    THEN skipleading(parsed.line, p0 + 3) ELSE p0)
ParsedIdent == Slice(parsed.line, ParsedStart, IdentTail(parsed.line, ParsedStart))
ParsedNamesRegister ==
  /\ parsed.line # <<>>
  /\ ~isdigit(CharAt(parsed.line, ParsedStart))
  /\ CharAt(parsed.line, ParsedStart) # "$"

\* C8: a register identifier in a script line resolves only to a register
\* whose name is exactly, case-sensitively, the identifier; an identifier that
\* is a proper prefix of a register name, or is empty, does not resolve and is
\* an unknown-register error.
C8_ExactRegisterName ==
  ParsedNamesRegister
  => IF \E r \in 1..Len(Loaded(parsed.mcu, parsed.file)) :
          Loaded(parsed.mcu, parsed.file)[r].name = ParsedIdent
     THEN \E r \in 1..Len(Loaded(parsed.mcu, parsed.file)) :
            /\ Loaded(parsed.mcu, parsed.file)[r].name = ParsedIdent
            /\ Loaded(parsed.mcu, parsed.file)[r].address = parsed.ret.address
            /\ Loaded(parsed.mcu, parsed.file)[r].size = parsed.ret.size
     ELSE parsed.failed

(***************************************************************************)
(* Properties of mcu_match() (SpecMatch)                                   *)
(***************************************************************************)
\* the family of the last call is F followed by " M3", for an F without spaces
MatchedSuffixM3 ==
  /\ Len(matched.mcufamily) > 3
  /\ SubSeq(matched.mcufamily, Len(matched.mcufamily) - 2, Len(matched.mcufamily))
       = <<" ","M","3">>
  /\ strchr(matched.mcufamily, 0, " ") = Len(matched.mcufamily) - 3

\* C9: the architecture suffix is stripped from the MCU family before it is
\* compared: for every family F without spaces and every MCU-list L,
\* mcu_match(F + " M3", L) equals mcu_match(F, L), for entries that match
\* exactly as well as for entries with a trailing '*'.
C9_SuffixStripped ==
  MatchedSuffixM3
  => matched.ret = mcu_match(SubSeq(matched.mcufamily, 1, Len(matched.mcufamily) - 3),
                             matched.list)

\* C10: matching is case-insensitive in the family: whenever
\* mcu_match(family, list) holds, mcu_match(uppercase(family), list) holds.
C10_UppercaseFamilyMatches ==
  (matched.mcufamily # <<>> /\ matched.ret)
  => mcu_match(MapUpper(matched.mcufamily), matched.list)

(***************************************************************************)
(* Properties of the end of a script (SpecRun)                             *)
(***************************************************************************)
\* the calls of the walk that returned 0
RunEnds == {k \in 1..Len(run.rets) : run.rets[k].ret = 0}

\* C11: once bmscript_line() has returned 0 because the script is at its end,
\* every further call with the same name or with NULL returns 0 and leaves the
\* cache at the end of that script; the script is walked again only after
\* bmscript_clearcache(), another name, a load or a clear.
C11_ExhaustedStays ==
  (run.call = "line" /\ RunExact /\ RunEnds # {})
  => /\ \A k \in 1..Len(run.rets) : k >= Min(RunEnds) => run.rets[k].ret = 0
     /\ cache.name = run.name
     /\ cache.count = Len(RunLines)
     /\ cache.index = cache.count

\* a script of several lines was walked to its end and three calls after the
\* last instruction returned 0
C11_Witness ==
  /\ run.call = "line" /\ RunExact
  /\ Len(RunLines) >= 2
  /\ Len(run.rets) = Len(RunLines) + 3
  /\ Min(RunEnds) = Len(RunLines) + 1
  /\ cache.index = Len(RunLines)

(***************************************************************************)
(* Properties of a repeated walk (SpecRepeat)                              *)
(***************************************************************************)
\* C12: walking a script to its end with bmscript_line_fmt(), then
\* bmscript_clearcache(), then walking it again with the same name and the
\* same parameters gives the same results in the same order: the same
\* commands and the same skips.
C12_RepeatedWalkSame ==
  run.prev # <<>>
  => \A k \in 1..Len(run.rets) :
        IF k <= Len(run.prev) THEN run.rets[k] = run.prev[k] ELSE run.rets[k].ret = 0

\* a script that prints commands and skips an instruction was walked to its
\* end twice
C12_Witness ==
  /\ run.prev # <<>>
  /\ Len(run.rets) = Len(run.prev)
  /\ RunAtEnd
  /\ \E k \in 1..(Len(run.rets) - 1) : run.rets[k].ret = 0
  /\ \E k \in 1..Len(run.rets) : run.rets[k].ret = 1

(***************************************************************************)
(* Properties of a load after a load of another MCU family (SpecReload)    *)
(***************************************************************************)
\* the list is what bmscript_load() builds from an empty list for the
\* arguments of the last load
FreshList ==
  \E stale \in StaleCells :
     script_root.next = Built(session.mcu, session.arch, session.file, stale).scripts

\* the scripts that a load of the MCU family builds, for any architecture and
\* any file
ScriptsFor(mcu) ==
  UNION {{Built(mcu, in[1], in[2], in[3]).scripts[j] :
            j \in 1..Len(Built(mcu, in[1], in[2], in[3]).scripts)} :
         in \in Archs \X Files \X StaleCells}

\* C13: a call of bmscript_load() for an MCU family other than the one that is
\* loaded tears the list down and rebuilds it: after the call the list holds
\* exactly the scripts that the same call builds from an empty list, no script
\* that is built only for the first MCU family remains, and the cache is
\* cleared.
C13_OtherMcuRebuilds ==
  (run.before # NULLSTR /\ ~halted)
  => /\ session.mcu # run.before
     /\ FreshList
     /\ result = [call |-> "load", ret |-> ScriptCount, instr |-> NoInstr, line |-> NoLine]
     /\ \A i \in 1..ScriptCount :
           script_root.next[i] \in ScriptsFor(run.before)
           => script_root.next[i] \in ScriptsFor(session.mcu)
     /\ cache = NoCache

\* bmscript_load("STM32F407") after bmscript_load("LPC1343") and a walk that
\* stopped inside the script "memremap" of the LPC1343: no script "memremap"
\* is left
C13_Witness ==
  /\ run.before = McuLPC1343
  /\ session.mcu = McuSTM32F407
  /\ ~halted
  /\ run.prev # <<>>
  /\ run.prev[1].ret = 1
  /\ run.prev[1].instr = MemremapBuiltin
  /\ ScriptCount > 0
  /\ FirstNamed(NameMemremap) > ScriptCount

(***************************************************************************)
(* Properties of bmscript_clear() (SpecTeardown)                           *)
(***************************************************************************)
\* C14: after bmscript_clear(), whatever the state it was called in, the list
\* holds no script, the MCU name in the root is NULL and the cache is
\* {NULL, NULL, 0, 0}; every call of bmscript_line() with a name returns 0,
\* and changes none of this, until the next bmscript_load().
C14_ClearedReturnsNone ==
  run.before # NULLSTR
  => /\ script_root = [name |-> NULLSTR, next |-> <<>>]
     /\ session = NoSession
     /\ cache = NoCache
     /\ \A k \in 1..Len(run.rets) : run.rets[k].ret = 0 /\ run.rets[k].instr = NoInstr

\* bmscript_clear() in the middle of a walk of "memremap" of the LPC1343, and
\* then two calls for the same name
C14_Witness ==
  /\ run.before = McuLPC1343
  /\ run.prev # <<>>
  /\ run.prev[1].ret = 1
  /\ run.prev[1].instr = MemremapBuiltin
  /\ run.name = NameMemremap
  /\ ~run.absent
  /\ Len(run.rets) = 2
  /\ result.call = "line"
  /\ ~halted

(***************************************************************************)
(* Properties of the built-in scripts and registers (SpecRun)              *)
(***************************************************************************)
\* the commands of the built-in script "swo_generic" for the parameters
\* 2, 15, 115200, 0xFFFFFFFF
SwoGenericCommands ==
  <<
    <<"s","e","t"," ","{","i","n","t","}","0","x","e","0","0","0","e","d","f","c"," ","="," ","0","x","1","0","0","0","0","0","0","\n">>,
    <<"s","e","t"," ","{","i","n","t","}","0","x","e","0","0","4","0","0","0","4"," ","="," ","0","x","1","\n">>,
    <<"s","e","t"," ","{","i","n","t","}","0","x","e","0","0","4","0","0","f","0"," ","="," ","0","x","2","\n">>,
    <<"s","e","t"," ","{","i","n","t","}","0","x","e","0","0","4","0","0","1","0"," ","="," ","0","x","f","\n">>,
    <<"s","e","t"," ","{","i","n","t","}","0","x","e","0","0","4","0","3","0","4"," ","="," ","0","x","0","\n">>,
    <<"s","e","t"," ","{","i","n","t","}","0","x","e","0","0","0","0","f","b","0"," ","="," ","0","x","c","5","a","c","c","e","5","5","\n">>,
    <<"s","e","t"," ","{","i","n","t","}","0","x","e","0","0","0","0","e","8","0"," ","="," ","0","x","1","1","\n">>,
    <<"s","e","t"," ","{","i","n","t","}","0","x","e","0","0","0","0","e","4","0"," ","="," ","0","x","0","\n">>
  >>

\* the walk is bmscript_line_fmt("swo_generic") with the parameters
\* 2, 15, 115200, 0xFFFFFFFF for the STM32F407 and an architecture other than M0
RunSwoGeneric ==
  /\ run.call = "line_fmt"
  /\ run.name = NameSwoGeneric
  /\ run.params = ParamsAbsent
  /\ session.mcu = McuSTM32F407
  /\ session.arch # ArchM0

\* C15: for the STM32F407 with architecture M4 (or any architecture other than
\* M0), the calls of bmscript_line_fmt("swo_generic") with the parameters
\* 2, 15, 115200, 0xFFFFFFFF print eight commands, in this order, and then
\* return 0: stores of width int of 0x1000000 to 0xE000EDFC, 1 to 0xE0040004,
\* 2 to 0xE00400F0, 0xf to 0xE0040010, 0 to 0xE0040304, 0xc5acce55 to
\* 0xE0000FB0, 0x11 to 0xE0000E80 and 0 to 0xE0000E40, each as
\* "set {int}0x<addr> = 0x<value>" and a newline.
C15_SwoGenericCommands ==
  RunSwoGeneric
  => \A k \in 1..Len(run.rets) :
        IF k <= 8
        THEN run.rets[k] = [ret |-> 1, instr |-> NoInstr, line |-> SwoGenericCommands[k]]
        ELSE run.rets[k] = [ret |-> 0, instr |-> NoInstr, line |-> NoLine]

\* the eight commands and two calls after them, for architecture M4
C15_Witness ==
  /\ RunSwoGeneric
  /\ session.arch = ArchM4
  /\ Len(run.rets) = 10
  /\ run.rets[8].ret = 1
  /\ run.rets[9].ret = 0

(***************************************************************************)
(* Properties of the compiled instructions (Spec)                          *)
(***************************************************************************)
\* the value with the bits above the size cleared
MaskedToSize(value, size) ==
  IF size = 1 THEN <<0, value[2] % 256>> ELSE IF size = 2 THEN <<0, value[2]>> ELSE value

\* the text ends with the value in hexadecimal and a newline
EndsWithValue(line, value) ==
  /\ Len(line) >= Len(FmtHex(value)) + 3
  /\ SubSeq(line, Len(line) - Len(FmtHex(value)) - 2, Len(line))
       = <<"0","x">> \o FmtHex(value) \o <<"\n">>

\* C16: every instruction of every script in the list, compiled from a
\* built-in script or from the file, has size 1, 2 or 4, and the value that
\* bmscript_line_fmt() prints for it is the value, after the replacement of a
\* parameter, with the bits above the size cleared: value & 0xff,
\* value & 0xffff, or all 32 bits.
C16_SizeAndMaskedValue ==
  \A i \in 1..ScriptCount : \A j \in 1..Len(script_root.next[i].lines) :
     /\ script_root.next[i].lines[j].size \in {1, 2, 4}
     /\ \A params \in ParamVectors :
           ~ParamAbsent(script_root.next[i].lines[j], params)
           => EndsWithValue(FormatInstr(script_root.next[i].lines[j], params, <<>>).line,
                            MaskedToSize(ReplaceParam(script_root.next[i].lines[j].value, params),
                                         script_root.next[i].lines[j].size))

(***************************************************************************)
(* Properties of the register list of a load (SpecParse)                   *)
(***************************************************************************)
\* the register list of the load the last call of parseline() was made for
ParsedRegisters == Loaded(parsed.mcu, parsed.file)

\* the list holds a register with this name and address
HasRegister(registers, name, address) ==
  \E r \in 1..Len(registers) : registers[r].name = name /\ registers[r].address = address

LineDbgmcuCr == <<"D","B","G","M","C","U","_","C","R"," ","|","="," ","0","x","2","0","\n">>
LineM4Memmap == <<"M","4","M","E","M","M","A","P"," ","="," ","0","\n">>

\* C17: a hard-coded register is in the register list of a load if and only
\* if its MCU list matches the MCU family of the load: for the STM32F103 the
\* list holds DBGMCU_CR at 0xE0042004 (by "STM32F1*") and SCB_DHCSR at
\* 0xE000EDF0 (by "*") and does not hold M4MEMMAP.
C17_DefaultRegisterIffMatch ==
  (parsed.mcu # NULLSTR /\ parsed.file = BmscriptNone)
  => /\ \A d \in 1..Len(register_defaults) :
           mcu_match(parsed.mcu, register_defaults[d].mcu_list)
           <=> \E r \in 1..Len(ParsedRegisters) :
                  ParsedRegisters[r] = [name |-> register_defaults[d].name,
                                        address |-> register_defaults[d].address,
                                        size |-> register_defaults[d].size]
     /\ parsed.mcu = McuSTM32F103
        => /\ HasRegister(ParsedRegisters, <<"D","B","G","M","C","U","_","C","R">>, U32(\hE004, \h2004))
           /\ HasRegister(ParsedRegisters, <<"S","C","B","_","D","H","C","S","R">>, U32(\hE000, \hEDF0))
           /\ \A r \in 1..Len(ParsedRegisters) : ParsedRegisters[r].name # <<"M","4","M","E","M","M","A","P">>
           /\ parsed.line = LineDbgmcuCr
              => parsed.ret = [oper |-> "|", address |-> U32(\hE004, \h2004),
                               value |-> U32(0, 32), size |-> 4]
           /\ parsed.line = LineM4Memmap => parsed.failed

\* "DBGMCU_CR |= 0x20" was parsed with the register list of the STM32F103
C17_Witness ==
  /\ parsed.mcu = McuSTM32F103
  /\ parsed.file = BmscriptNone
  /\ parsed.line = LineDbgmcuCr
  /\ ~parsed.failed
  /\ parsed.ret.address = U32(\hE004, \h2004)

(***************************************************************************)
(* Properties of the registers of the file (Spec)                          *)
(***************************************************************************)
NameItmTer == <<"I","T","M","_","T","E","R">>
NameUserReg == <<"U","S","E","R","R","E","G">>

\* the register list of the last load, and the list of the same load without
\* the file
SessionRegisters == Loaded(session.mcu, session.file)
SessionDefaults == Loaded(session.mcu, BmscriptNone)

\* the list holds a script with this name and these lines
HasScript(name, lines) ==
  \E i \in 1..ScriptCount :
     script_root.next[i].name = name /\ script_root.next[i].lines = lines

\* C18: a register definition of the file whose MCU list matches and whose
\* name is the name of a register in the list replaces the address and the
\* size of that register in place (the list keeps one register of the name, at
\* its position); a definition with a new name is added at the end. All
\* register definitions of the file are read before any script is compiled, so
\* a built-in script that names the register is compiled with the address and
\* the size of the file.
C18_FileRegisterOverrides ==
  session.file = BmscriptRegisters
  => /\ Len(SessionRegisters) = Len(SessionDefaults) + 1
     /\ SessionRegisters[Len(SessionRegisters)]
          = [name |-> NameUserReg, address |-> U32(\h2000, \h0200), size |-> 2]
     /\ \A r \in 1..Len(SessionDefaults) :
           IF SessionDefaults[r].name = NameItmTer /\ session.mcu = McuSTM32F407
           THEN SessionRegisters[r]
                  = [name |-> NameItmTer, address |-> U32(\h2000, \h0100), size |-> 1]
           ELSE SessionRegisters[r] = SessionDefaults[r]
     /\ Cardinality({r \in 1..Len(SessionRegisters) : SessionRegisters[r].name = NameItmTer}) = 1
     /\ HasScript(NameSwoChannels,
                  <<IF session.mcu = McuSTM32F407
                    THEN [oper |-> "=", address |-> U32(\h2000, \h0100), value |-> SCRIPT_MAGIC,
                          size |-> 1]
                    ELSE [oper |-> "=", address |-> U32(\hE000, \h0E00), value |-> SCRIPT_MAGIC,
                          size |-> 4]>>)

\* the scripts of the STM32F407 were loaded with the file that redefines
\* ITM_TER: the built-in "swo_channels" stores to the address of the file
C18_Witness ==
  /\ session.file = BmscriptRegisters
  /\ session.mcu = McuSTM32F407
  /\ result.call = "load"
  /\ HasScript(NameSwoChannels,
               <<[oper |-> "=", address |-> U32(\h2000, \h0100), value |-> SCRIPT_MAGIC,
                  size |-> 1]>>)

(***************************************************************************)
(* Properties of the inversion of the value (Spec)                         *)
(***************************************************************************)
NameClearBits == <<"c","l","e","a","r","_","b","i","t","s">>
NameSetInv == <<"s","e","t","_","i","n","v">>

\* the scripts of the file BmscriptInvert are in the list
InvertLoaded == session.file = BmscriptInvert /\ result.call = "load" /\ ~halted

\* C19: the inversion of a parameter "$d" is accepted only when the operator
\* that results is '&' ("R &= ~$d" or "R ~= $d"): the line compiles to the
\* operator '~' with the parameter as value, printed as "&= ~ 0x<param>". The
\* inversion of a parameter with '=' or '|' ("R = ~$d", "R |= ~$d") is a
\* compile error and never gives an instruction in the list.
C19_ParameterInversion ==
  InvertLoaded
  => /\ HasScript(NameClearBits,
                  <<[oper |-> "~", address |-> U32(\hE000, \h0E00), value |-> SCRIPT_MAGIC,
                     size |-> 4],
                    [oper |-> "~", address |-> U32(\hE000, \h0E00),
                     value |-> U32Add(SCRIPT_MAGIC, 1), size |-> 4],
                    [oper |-> "&", address |-> U32(\hE000, \h0E00),
                     value |-> U32Add(SCRIPT_MAGIC, 1), size |-> 4]>>)
     /\ FormatInstr([oper |-> "~", address |-> U32(\hE000, \h0E00), value |-> SCRIPT_MAGIC,
                     size |-> 4], ParamsPresent, <<>>)
          = [ret |-> 1, line |-> <<"s","e","t"," ","{","i","n","t","}","0","x","e","0","0","0","0","e","0","0"," ","&","="," ","~"," ","0","x","1","\n">>]
     /\ \A i \in 1..ScriptCount :
           script_root.next[i].name = NameSetInv => script_root.next[i].lines = <<>>

(***************************************************************************)
(* Properties of the inversion of a number (SpecParse)                     *)
(***************************************************************************)
LineModerClear == <<"G","P","I","O","B","_","M","O","D","E","R"," ","~","="," ","0","x","0","0","c","0","\n">>
LineModerAndNot == <<"G","P","I","O","B","_","M","O","D","E","R"," ","&","="," ","~","0","x","0","0","c","0","\n">>
LineModerClearNot == <<"G","P","I","O","B","_","M","O","D","E","R"," ","~","="," ","~","0","x","0","0","c","0","\n">>
LineUserRegClear == <<"U","S","E","R","R","E","G"," ","~","="," ","0","x","1","0","\n">>

\* the register GPIOB_MODER is in the register list of the call
ParsedForF4 == parsed.mcu = McuSTM32F407

AppliedDefaults ==
  SelectSeq(script_defaults,
            LAMBDA def : ScriptApplies(session.mcu, ArchName(session.arch), def.mcu_list))

\* the instruction of "$3 = $2", the script "swo_generic" for "[M0]"
SwoGenericM0 ==
  [oper |-> "=", address |-> U32Add(SCRIPT_MAGIC, 3), value |-> U32Add(SCRIPT_MAGIC, 2),
   size |-> 4]

\* the instruction of "$1 = $0", the script "swo_channels" for "[M0]"
SwoChannelsM0 ==
  [oper |-> "=", address |-> U32Add(SCRIPT_MAGIC, 1), value |-> SCRIPT_MAGIC, size |-> 4]

\* C21: a script, hard-coded or of the file, is added to the list if and only
\* if its MCU list matches the MCU family of the load or "[arch]"; with no
\* architecture, or an empty one, only the MCU family is matched. So for the
\* architecture M0 the script "swo_generic" for "[M0]" is added after the one
\* for "*" and stands before it in the list, and bmscript_line("swo_generic")
\* returns the one instruction "$3 = $2"; for M4 or no architecture the
\* scripts for "[M0]" are not in the list.
C21_ScriptAddedIffMatch ==
  session.mcu # NULLSTR
  => /\ (session.file = BmscriptNone /\ result.call = "load")
        => /\ ScriptCount = Len(AppliedDefaults)
           /\ \A k \in 1..ScriptCount :
                 script_root.next[k].name = AppliedDefaults[ScriptCount + 1 - k].name
     /\ HasScript(NameSwoGeneric, <<SwoGenericM0>>) <=> session.arch = ArchM0
     /\ HasScript(NameSwoChannels, <<SwoChannelsM0>>) <=> session.arch = ArchM0
     /\ session.arch = ArchM0
        => /\ script_root.next[FirstNamed(NameSwoGeneric)].lines = <<SwoGenericM0>>
           /\ \E q \in (FirstNamed(NameSwoGeneric) + 1)..ScriptCount :
                 /\ script_root.next[q].name = NameSwoGeneric
                 /\ Len(script_root.next[q].lines) = 8
     /\ (session.arch = ArchM0 /\ run.call = "line" /\ run.name = NameSwoGeneric)
        => WalkedInOrder(<<SwoGenericM0>>)
     /\ session.file = BmscriptOverride
        => (HasScript(NameMemremap, <<MemremapOverride>>) <=> session.mcu = McuLPC1343)

\* bmscript_line("swo_generic") for the architecture M0: "$3 = $2", then 0
C21_Witness ==
  /\ session.arch = ArchM0
  /\ run.call = "line"
  /\ run.name = NameSwoGeneric
  /\ Len(run.rets) = 3
  /\ run.rets[1].instr = SwoGenericM0
  /\ run.rets[2].ret = 0

(***************************************************************************)
(* Properties of two callers that call in turn (SpecTwo)                   *)
(***************************************************************************)
\* the second caller asks for a name that no script has
OtherMisses == run.other # NULLSTR /\ FirstNamed(run.other) > ScriptCount

\* C22: bmscript_line() with a name that no script in the list has returns 0
\* and is no error; the call leaves the cache as it is, so that a script that
\* is being walked continues with the same instruction at the next call with
\* a NULL name.
C22_UnknownNameKeepsCache ==
  (run.call = "line" /\ RunExact /\ OtherMisses)
  => /\ ~halted
     /\ WalkedInOrder(RunLines)
     /\ \A k \in 1..Len(run.prev) :
           run.prev[k] = [ret |-> 0, instr |-> NoInstr, line |-> NoLine]
     /\ cache.name = run.name
     /\ cache.index = Min({Len(run.rets), Len(RunLines)})

\* a script of two lines or more was walked to its end with a NULL name, with
\* a call for a name that no script has after each call of the walk
C22_Witness ==
  /\ run.call = "line"
  /\ run.absent
  /\ RunExact
  /\ OtherMisses
  /\ Len(RunLines) >= 2
  /\ Len(run.rets) = Len(RunLines) + 1
  /\ Len(run.prev) = Len(run.rets)
  /\ run.rets[Len(run.rets)].ret = 0

\* the second caller asks for a name that a script has, and it is another
\* script than the one the first caller asks for
OtherFinds ==
  /\ run.other # NULLSTR
  /\ FirstNamed(run.other) <= ScriptCount
  /\ FirstNamed(run.other) # FirstNamed(run.name)

\* C23: there is one cache, and a call with a name other than the name in the
\* cache starts at the first instruction of the script of that name: when two
\* callers call bmscript_line("a") and bmscript_line("b") in turn for two
\* scripts in the list, every call returns the first instruction of its script
\* and neither walk ever returns 0.
C23_TurnsRestart ==
  (run.call = "line" /\ ~run.absent /\ RunFinds /\ OtherFinds)
  => /\ \A k \in 1..Len(run.rets) :
           run.rets[k] = [ret |-> 1, instr |-> RunLines[1], line |-> NoLine]
     /\ \A k \in 1..Len(run.prev) :
           run.prev[k] = [ret |-> 1, instr |-> script_root.next[FirstNamed(run.other)].lines[1],
                          line |-> NoLine]

\* five calls each for "swo_generic" and "swo_channels", in turn
C23_Witness ==
  /\ run.call = "line"
  /\ ~run.absent
  /\ run.name = NameSwoGeneric
  /\ run.other = NameSwoChannels
  /\ RunFinds
  /\ OtherFinds
  /\ Len(RunLines) >= 2
  /\ Len(run.rets) = 5
  /\ Len(run.prev) = 5

(***************************************************************************)
(* Properties of the hard-coded scripts (SpecBuiltin)                      *)
(***************************************************************************)
\* C24: for every MCU family and architecture, every hard-coded script that
\* a load selects names only registers that the load has put in the register
\* list for that family: no line of a hard-coded script has a register name
\* that is not found, and assert(r < reg_count) holds for every one of them.
C24_BuiltinRegistersResolve ==
  parsed.mcu # NULLSTR
  => /\ ~parsed.failed
     /\ parsed.ret.oper \in {"=", "|", "&", "~"}
     /\ parsed.ret.size = 4
     /\ ParsedNamesRegister
        => \E r \in 1..Len(DefaultRegisters(parsed.mcu)) :
              /\ DefaultRegisters(parsed.mcu)[r].name = ParsedIdent
              /\ DefaultRegisters(parsed.mcu)[r].address = parsed.ret.address
     /\ \A stale \in StaleCells :
           ~CompileScript(parsed.line, DefaultRegisters(parsed.mcu), stale,
                          [head |-> 0, lines |-> <<>>, failed |-> FALSE]).failed

\* "DBGMCU_CR |= 0x20", the one line of the script "swo_device" for the
\* STM32F2, was parsed with the registers of the STM32F205
C24_Witness ==
  /\ parsed.mcu = <<"S","T","M","3","2","F","2","0","5">>
  /\ ParsedIdent = <<"D","B","G","M","C","U","_","C","R">>
  /\ parsed.ret = [oper |-> "|", address |-> U32(\hE004, \h2004), value |-> U32(0, 32),
                   size |-> 4]

(***************************************************************************)
(* Properties of the parameters of a line (SpecParse)                      *)
(***************************************************************************)
\* the line has a '$' where its address starts
ParsedDollarAddress == parsed.line # <<>> /\ CharAt(parsed.line, ParsedStart) = "$"

\* the line has a '$' after its address
ParsedDollarValue ==
  \E p \in (ParsedStart + 1)..(Len(parsed.line) - 1) : CharAt(parsed.line, p) = "$"

\* C25: every reference to a parameter in a compiled instruction, as address
\* or as value, has an index from 0 to 15, that is, lies in SCRIPT_MAGIC ..
\* SCRIPT_MAGIC + 15, for every line that parseline() accepts, also when the
\* character after the '$' is not a decimal digit.
C25_ParameterIndexInRange ==
  ~parsed.failed
  => /\ ParsedDollarAddress => IsParam(parsed.ret.address)
     /\ ParsedDollarValue => IsParam(parsed.ret.value)

(***************************************************************************)
(* Properties of the entries of an MCU list (SpecMatch)                    *)
(***************************************************************************)
\* the text has none of these characters
HasNone(text, chars) == \A i \in 1..Len(text) : text[i] \notin chars

\* the letter, as a capital
Capital(c) == MapUpper(<<c>>)[1]

\* the entry and the name have the same length, and at every position the
\* entry has an 'x' or the same letter as the name, but for case
EntryCovers(entry, name) ==
  /\ Len(entry) = Len(name)
  /\ \A i \in 1..Len(entry) : entry[i] = "x" \/ Capital(entry[i]) = Capital(name[i])

\* the call was mcu_match() of a family without architecture suffix with a
\* list of one entry without wildcard '*'
MatchedPlainEntry ==
  /\ matched.mcufamily # <<>>
  /\ HasNone(matched.mcufamily, {" ", "*"})
  /\ HasNone(matched.list, {" ", ",", "*"})

\* C26: in an entry of an MCU list a lower-case 'x' matches any one character
\* of the family and every other character matches without regard to case;
\* the entry is as long as the family. The wild-card works on one side only:
\* a capital 'X' in the entry, or an 'x' in the family, matches the letter
\* x or X only.
C26_LowerXIsWildcard ==
  /\ MatchedPlainEntry => matched.ret = EntryCovers(matched.list, matched.mcufamily)
  /\ (matched.mcufamily = McuLPC1343 /\ matched.list = <<"L","P","C","1","3","X","X">>) => ~matched.ret
  /\ (matched.mcufamily = <<"L","P","C","1","3","x","x">> /\ matched.list = <<"L","P","C","1","3","4","3">>) => ~matched.ret
  /\ (matched.mcufamily = <<"L","P","C","1","3","x","x">> /\ matched.list = <<"L","P","C","1","3","x","x">>) => matched.ret

\* mcu_match("LPC1343", "lpc13xx") holds
C26_Witness ==
  /\ matched.mcufamily = McuLPC1343
  /\ matched.list = <<"l","p","c","1","3","x","x">>
  /\ matched.ret

\* the call was mcu_match() of a family without architecture suffix with a
\* list of one entry that ends in the wildcard '*'
MatchedPrefixEntry ==
  /\ matched.mcufamily # <<>>
  /\ HasNone(matched.mcufamily, {" ", "*"})
  /\ matched.list # <<>>
  /\ matched.list[Len(matched.list)] = "*"
  /\ HasNone(SubSeq(matched.list, 1, Len(matched.list) - 1), {" ", ",", "*"})

\* the entry of the list without its '*'
MatchedPrefix == SubSeq(matched.list, 1, Len(matched.list) - 1)

\* C27: the entry "*" matches every family, and an entry "P*" matches a
\* family only when the family is longer than P and its first Len(P)
\* characters match P as in an entry without '*'; a family equal to P
\* ("STM32F1" with "STM32F1*") does not match.
C27_PrefixNeedsLongerFamily ==
  /\ MatchedPrefixEntry
     => matched.ret = \/ MatchedPrefix = <<>>
                      \/ /\ Len(matched.mcufamily) > Len(MatchedPrefix)
                         /\ EntryCovers(MatchedPrefix,
                                        SubSeq(matched.mcufamily, 1, Len(MatchedPrefix)))
  /\ (matched.mcufamily = <<"S","T","M","3","2","F","1">> /\ matched.list = <<"S","T","M","3","2","F","1","*">>) => ~matched.ret
  /\ (matched.mcufamily = McuSTM32F103 /\ matched.list = <<"S","T","M","3","2","F","1","*">>) => matched.ret

\* mcu_match("STM32F103", "STM32x1*") holds
C27_Witness ==
  /\ matched.mcufamily = McuSTM32F103
  /\ matched.list = <<"S","T","M","3","2","x","1","*">>
  /\ matched.ret

(***************************************************************************)
(* The cache and the list of scripts (Spec)                                *)
(***************************************************************************)
\* the cache is empty, as bmscript_clearcache() leaves it
CacheIdle == cache = NoCache

\* the cache holds the name, the lines and the count of the script at pos
CacheRefers(pos) ==
  /\ cache.name = script_root.next[pos].name
  /\ cache.count = Len(script_root.next[pos].lines)
  /\ cache.lines = IF cache.count > 0 THEN pos ELSE 0

\* C28: in every reachable state, after any sequence of bmscript_load(),
\* bmscript_clear(), bmscript_clearcache(), bmscript_line() and
\* bmscript_line_fmt(), the cache is either empty or refers to a script that
\* is in the list, with an index from 0 to the count of that script; it never
\* refers to a script that bmscript_clear() or a new load has freed.
C28_CacheRefersToListedScript ==
  \/ CacheIdle
  \/ /\ \E pos \in 1..ScriptCount : CacheRefers(pos)
     /\ cache.index \in 0..cache.count

\* the cache is at the end of a script of the list that has instructions
C28_Witness ==
  /\ result.call \in {"line", "line_fmt"}
  /\ \E pos \in 1..ScriptCount : CacheRefers(pos)
  /\ cache.count > 0
  /\ cache.index = cache.count

(***************************************************************************)
(* Calls with a NULL name (Spec)                                           *)
(***************************************************************************)
\* this step is bmscript_line(NULL, ...) or bmscript_line_fmt(NULL, ...)
\* made while the cache is empty
AbsentNameOnEmptyCache ==
  /\ cache.name = NULLSTR
  /\ \/ bmscript_line(NULLSTR)
     \/ \E params \in ParamVectors : bmscript_line_fmt(NULLSTR, params)

\* C29: bmscript_line() and bmscript_line_fmt() called with the name NULL are
\* defined in every state: when the cache is empty (before any call with a
\* name, or after bmscript_clearcache(), bmscript_clear() or a load) the call
\* returns 0 and does not reach assert(name != NULL).
C29_AbsentNameReturnsNone ==
  [][AbsentNameOnEmptyCache => (~halted' /\ result'.ret = 0)]_vars

(***************************************************************************)
(* Literals and parameters (SpecParse)                                     *)
(***************************************************************************)
\* the line was compiled, and it has no '$': its address and its value are
\* numbers, or a register for the address
ParsedLiterals ==
  /\ parsed.line # <<>>
  /\ ~parsed.failed
  /\ HasNone(parsed.line, {"$"})

\* what bmscript_line_fmt() prints for the compiled instruction
ParsedFormat(params) == FormatInstr(parsed.ret, params, <<>>)

\* C30: the command that bmscript_line_fmt() prints for an instruction whose
\* address and value were written as numbers does not depend on the
\* parameters: two calls that differ in the parameters only print the same
\* command, also for a number, or the inversion of a number, in the range
\* SCRIPT_MAGIC .. SCRIPT_MAGIC + 15.
C30_LiteralsIgnoreParameters ==
  ParsedLiterals
    => \A p \in ParamVectors, q \in ParamVectors : ParsedFormat(p) = ParsedFormat(q)

====
